---- MODULE Spec2Model ----
(***************************************************************************)
(* A model of the set based particle swarm optimiser setpso: the swarm     *)
(* engine Pso (particles, groups, PUpdate, SetParams, UpdateGlobal), the   *)
(* two targeting strategies GPso and CLPso, and the cost function stubs of *)
(* package futil (IntFunStub, FloatFunStub, SFloatFunStub) the engine      *)
(* compares tries with.                                                    *)
(*                                                                         *)
(* float64 values are held in fixed point: the integer v stands for         *)
(* v / FScale.  Both random generators (the engine's pso.rnd and the cost   *)
(* function's own f.rnd) are seeded deterministic generators in the code;   *)
(* they are modelled as a linear congruential generator whose state is part *)
(* of the engine state.  The only nondeterminism left after construction    *)
(* is Go's unspecified map iteration order in UpdateGlobal and the choice   *)
(* of the operations applied.                                               *)
(***************************************************************************)
EXTENDS Integers, Sequences, FiniteSets, TLC

\* ---------------------------------------------------------------- bounds
\* number of particles n handed to NewPso
NParticles == 2
\* fun.MaxLen(): number of bits of a parameter
MaxLen == 2
\* largest subset sum target of the cost function
MaxTarget == 1
\* seeds sd handed to NewPso range over 0..MaxSeed
MaxSeed == 3
\* number of CreateGroup / MoveTo / UpdateGlobal calls explored in SpecGroup
MaxOps == 2
\* number of groups created through CreateGroup by the caller
MaxUserGroups == 1
\* the random generators have 2^RndBits states
RndBits == 4
\* fixed point scale of the float64 values
FScale == 1000
\* time constant Tc handed to NewSFloatFunStub
Tc == 3
\* SigmaMargin handed to NewSFloatFunStub
SigmaMargin == 1

\* ------------------------------------------------------------ bit vectors
RECURSIVE Pow2(_)
Pow2(n) == IF n = 0 THEN 1 ELSE 2 * Pow2(n - 1)

\* big.Int.Bit(i)
Bit(x, i) == (x \div Pow2(i)) % 2

RECURSIVE XorFrom(_, _, _)
XorFrom(x, y, i) ==
    IF x = 0 /\ y = 0 THEN 0
    ELSE (((x % 2) + (y % 2)) % 2) * Pow2(i) + XorFrom(x \div 2, y \div 2, i + 1)

\* big.Int.Xor
Xor(x, y) == XorFrom(x, y, 0)

\* big.Int.SetBit(x, i, b)
SetBit(x, i, b) == x - Bit(x, i) * Pow2(i) + b * Pow2(i)

RECURSIVE CardinalSize(_)
CardinalSize(x) == IF x = 0 THEN 0 ELSE (x % 2) + CardinalSize(x \div 2)

\* pso.maxN: all parameters are below 2^MaxLen
maxN == Pow2(MaxLen)

Patterns == 0 .. (maxN - 1)
Particles == 0 .. (NParticles - 1)
Bits == 0 .. (MaxLen - 1)

\* ------------------------------------------------------------ fixed point
Mul(a, b) == (a * b) \div FScale
Div(a, b) == (a * FScale) \div b

\* ------------------------------------------------------- random generator
RndMod == Pow2(RndBits)

\* one step of the seeded generator behind rand.Rand
RndNext(s) == (5 * s + 3) % RndMod

\* rand.Float64() for generator state s: a value in [0,1), in fixed point
RndFloat(s) == (s * FScale) \div RndMod

\* big.Int.Rand / rand.Intn for generator state s: a value in [0,n)
RndIntn(s, n) == (s * n) \div RndMod

\* --------------------------------------------------- cost function (futil)
CostMode == "CostMode"
TriesMode == "TriesMode"

Kinds == {"int", "float", "sfloat"}

\* element value of the ith set item of the subset sum instance
ElementValue(i) == i + 1

RECURSIVE SubsetSum(_, _)
SubsetSum(x, i) ==
    IF x = 0 THEN 0 ELSE (x % 2) * ElementValue(i) + SubsetSum(x \div 2, i + 1)

Abs(v) == IF v < 0 THEN 0 - v ELSE v

\* the generator state the cost function is left with after one Cost call:
\* only the noisy cost function draws from its generator
FunAdvance(f) ==
    IF f.kind = "sfloat" THEN [f EXCEPT !.rnd = RndNext(f.rnd)] ELSE f

\* f.Cost(data) for the parameter x, f being the state FunAdvance left:
\* |subset sum - Target|, plus noise of -sigma, 0 or sigma for the noisy cost
FunCost(f, x) ==
    LET base == Abs(SubsetSum(x, 0) - f.Target)
    IN  IF f.kind = "sfloat"
        THEN base * FScale + (RndIntn(f.rnd, 3) - 1) * (FScale \div 2)
        ELSE base

\* f.Constraint(pre, hint): the function accepts every pattern it does not
\* reject, and does not alter an accepted hint
FunConstraint(f, hint) == hint \notin f.rejected

\* NewSFloatCostValue / a zero cost
ZeroTry == [x |-> 0, cost |-> 0, costSum |-> 0, updateSum |-> 0,
            compSum |-> 0, compSuccessSum |-> 0, epsilon |-> 0]

\* alpha = 1 - 1/Tc
Alpha == FScale - (FScale \div Tc)

\* SFloatCostValue.Set
SFloatSet(t, c) == [t EXCEPT !.cost = c, !.updateSum = FScale]

\* SFloatCostValue.Update
SFloatUpdate(t, c) ==
    LET set(us, cs) ==
            [t EXCEPT !.updateSum = us, !.costSum = cs, !.cost = Div(cs, us)]
    IN  set(Mul(t.updateSum, Alpha) + FScale, Mul(t.costSum, Alpha) + c)

\* a CostMode comparison that leaves the sums of the receiver as they are
SFloatCmpCostKeeping(c, c1) ==
    [result |-> IF c1.cost - c.cost > 0 THEN FScale \div 2
                ELSE 0 - (FScale \div 2),
     c |-> c]

\* SFloatCostValue.Cmp, case CostMode
SFloatCmpCost(c, c1) ==
    [result |-> IF c1.cost - c.cost > 0 THEN FScale \div 2
                ELSE 0 - (FScale \div 2),
     c |-> [c EXCEPT !.compSum = 0, !.compSuccessSum = 0]]

\* a TriesMode comparison whose score takes the sign of the mean difference
SFloatCmpTriesSignedByD(c, c1) ==
    LET d == c1.cost - c.cost
        score(cs, css, eps, e2) ==
            [result |-> IF d > 0
                        THEN Div(Mul(cs, e2), (FScale \div 4) - e2)
                        ELSE 0 - Div(Mul(cs, e2), (FScale \div 4) - e2),
             c |-> [c EXCEPT !.compSum = cs, !.compSuccessSum = css,
                             !.epsilon = eps]]
        square(cs, css, eps) == score(cs, css, eps, Mul(eps, eps))
        rate(cs, css) ==
            square(cs, css, Div(2 * css - cs, cs + 2 * FScale) \div 2)
    IN  rate(Mul(c.compSum, Alpha) + FScale,
             IF d > 0 THEN Mul(c.compSuccessSum, Alpha) + FScale
             ELSE c.compSuccessSum)

\* SFloatCostValue.Cmp, case TriesMode
SFloatCmpTries(c, c1) ==
    LET d == c1.cost - c.cost
        signed(eps, s) == IF eps >= 0 THEN s ELSE 0 - s
        score(cs, css, eps, e2) ==
            [result |-> signed(eps, Div(Mul(cs, e2), (FScale \div 4) - e2)),
             c |-> [c EXCEPT !.compSum = cs, !.compSuccessSum = css,
                             !.epsilon = eps]]
        square(cs, css, eps) == score(cs, css, eps, Mul(eps, eps))
        rate(cs, css) ==
            square(cs, css, Div(2 * css - cs, cs + 2 * FScale) \div 2)
    IN  rate(Mul(c.compSum, Alpha) + FScale,
             IF d > 0 THEN Mul(c.compSuccessSum, Alpha) + FScale
             ELSE c.compSuccessSum)

\* SFloatCostValue.Cmp: c.Cmp(c1, mode); the receiver c is updated
SFloatCmp(c, c1, mode) ==
    IF mode = CostMode THEN SFloatCmpCost(c, c1) ELSE SFloatCmpTries(c, c1)

\* IntTry.Cmp
IntCmp(t, s) == IF t.cost < s.cost THEN 0 - FScale ELSE FScale

\* FloatTry.Cmp
FloatCmp(t, s) ==
    IF t.cost - s.cost > 0 THEN FScale
    ELSE IF t.cost - s.cost < 0 THEN 0 - FScale ELSE 0

\* Fun.Cmp(x, y, mode) of the three stubs: the result and y as the call
\* leaves it
Cmp(f, x, y, mode) ==
    LET scaled(r) ==
            [result |-> IF mode = TriesMode
                        THEN r.result \div (SigmaMargin * SigmaMargin)
                        ELSE r.result,
             y |-> r.c]
    IN  IF f.kind = "int" THEN [result |-> IntCmp(x, y), y |-> y]
        ELSE IF f.kind = "float" THEN [result |-> FloatCmp(x, y), y |-> y]
        ELSE scaled(SFloatCmp(y, x, mode))

\* Fun.SetTry(t, z): the try and the cost function after the call
SetTry(f, t, z) ==
    LET second(f2, t1) == [f |-> f2, t |-> SFloatUpdate(t1, FunCost(f2, z))]
        first(f1) ==
            second(FunAdvance(f1), SFloatSet([t EXCEPT !.x = z], FunCost(f1, z)))
    IN  IF f.kind = "sfloat" THEN first(FunAdvance(f))
        ELSE [f |-> f, t |-> [t EXCEPT !.x = z, !.cost = FunCost(f, z)]]

\* Fun.NewTry(): a try for the default parameter 0
NewTry(f) ==
    LET set(f1) == [f |-> f1, t |-> SFloatSet(ZeroTry, FunCost(f1, 0))]
    IN  IF f.kind = "sfloat" THEN set(FunAdvance(f))
        ELSE [f |-> f, t |-> [ZeroTry EXCEPT !.cost = FunCost(f, 0)]]

\* Fun.UpdateCost(t)
UpdateCost(f, t) ==
    LET update(f1) == [f |-> f1, t |-> SFloatUpdate(t, FunCost(f1, t.x))]
    IN  IF f.kind = "sfloat" THEN update(FunAdvance(f))
        ELSE [f |-> f, t |-> [t EXCEPT !.cost = FunCost(f, t.x)]]

\* a repair that sets pre to the hint before it tests the constraint
ToConstraintSettingFirst(f, pre, hint) ==
    LET set(r) == [ok |-> FunConstraint(f, hint), f |-> r.f, pre |-> r.t]
    IN  set(SetTry(f, pre, hint))

\* a repair that reports success without touching pre
ToConstraintKeeping(f, pre, hint) ==
    [ok |-> FunConstraint(f, hint), f |-> f, pre |-> pre]

\* Fun.ToConstraint(pre, hint)
ToConstraint(f, pre, hint) ==
    LET set(r) == [ok |-> TRUE, f |-> r.f, pre |-> r.t]
    IN  IF FunConstraint(f, hint) THEN set(SetTry(f, pre, hint))
        ELSE [ok |-> FALSE, f |-> f, pre |-> pre]

\* Fun.Copy(dest, src): parameter, decoded data and cost are all copied
Copy(dest, src) == src

\* ------------------------------------------------------------- heuristics
\* ToDefault: NTriesHeuristic
DefaultNTries == 250
\* ToDefault: TryGapHeuristic
DefaultTryGap == 100
\* the trial list capacity the caller sets with SetInt(NTriesHeuristic, _)
NTriesSet == 1
\* the stagnation window the caller sets with SetInt(TryGapHeuristic, _)
TryGapSet == 1

\* PsoHeuristics.ToDefault
ToDefault ==
    [Phi |-> FScale, Omega |-> (73 * FScale) \div 100,
     Lfactor |-> (15 * FScale) \div 100, Loffset |-> 2 * FScale,
     Threshold |-> (99 * FScale) \div 100,
     NTries |-> DefaultNTries, TryGap |-> DefaultTryGap]

\* PsoHeuristics.SetInt for the two integer heuristics
SetInt(h, ntries, trygap) == [h EXCEPT !.NTries = ntries, !.TryGap = trygap]

\* ------------------------------------------------------------ the engine
VARIABLES
    rnd,           \* pso.rnd: state of the seeded generator
    fun,           \* pso.fun: the cost function (kind, Target, rejected, rnd)
    Pt,            \* pso.Pt: the particles
    grp,           \* the Group objects allocated so far
    gr,            \* pso.gr: map from group name to Group object
    bestParticle,  \* pso.bestParticle
    heur,          \* the PsoHeuristics objects allocated so far
    hu,            \* pso.hu: the master heuristics object
    panic,         \* a run time panic (index out of range) has happened
    clPt,          \* CLPso.clPt: the CLpart of every particle (<<>>: no CLPso)
    TryGap,        \* CLPso.TryGap
    nops,          \* number of operations applied so far
    lastOp,        \* the operation applied last, with its arguments
    variant,       \* the strategy wrapping the Pso: "none", "gpso", "clpso"
    pc,            \* position in Update: "idle", "hint", "commit", "global"
    cursor,        \* the particle the running sweep of PUpdate is at
    iter,          \* number of Update calls completed
    pre,           \* current and personal best tries when PUpdate was entered
    twin,          \* a second engine, built and driven like the first
    ret,           \* what the function called last returned (<<>>: nothing)
    held           \* per particle, the lowest cost of the candidates it has held

engineVars == <<rnd, fun, Pt, grp, gr, bestParticle, heur, hu, panic, clPt,
                TryGap>>
runVars == <<variant, pc, cursor, iter, pre, twin, ret, held>>
vars == <<rnd, fun, Pt, grp, gr, bestParticle, heur, hu, panic, clPt, TryGap,
          nops, lastOp, variant, pc, cursor, iter, pre, twin, ret, held>>

\* the engine state as one value
St == [rnd |-> rnd, fun |-> fun, Pt |-> Pt, grp |-> grp, gr |-> gr,
       bestParticle |-> bestParticle, heur |-> heur, hu |-> hu,
       panic |-> panic, clPt |-> clPt, TryGap |-> TryGap]

Install(t) ==
    /\ rnd' = t.rnd
    /\ fun' = t.fun
    /\ Pt' = t.Pt
    /\ grp' = t.grp
    /\ gr' = t.gr
    /\ bestParticle' = t.bestParticle
    /\ heur' = t.heur
    /\ hu' = t.hu
    /\ panic' = t.panic
    /\ clPt' = t.clPt
    /\ TryGap' = t.TryGap

\* the orders in which a range over the map pso.gr can enumerate its keys
Orders(s) ==
    LET names == DOMAIN s.gr
        k == Cardinality(names)
    IN  {o \in [1 .. k -> names] : \A i, j \in 1 .. k : o[i] = o[j] => i = j}

RECURSIVE UpdateGroupScan(_, _, _, _)
UpdateGroupScan(s, members, i, best) ==
    LET id == members[i]
        next(c) ==
            UpdateGroupScan([s EXCEPT !.Pt[id].bestTry = c.y], members, i + 1,
                            IF c.result > 0 THEN id ELSE best)
    IN  IF i > Len(members) THEN [s |-> s, best |-> best]
        ELSE next(Cmp(s.fun, s.Pt[best].bestTry, s.Pt[id].bestTry, CostMode))

\* UpdateGroup without its scan: the first member is recorded as the best
UpdateGroupFirstMember(s, gi) ==
    LET g == s.grp[gi]
    IN  IF Len(g.members) = 0 THEN [s EXCEPT !.grp[gi].bestMember = -1]
        ELSE [s EXCEPT !.grp[gi].bestMember = g.members[1]]

\* Pso.UpdateGroup(g), g the Group object gi
UpdateGroup(s, gi) ==
    LET g == s.grp[gi]
        set(r) == [r.s EXCEPT !.grp[gi].bestMember = r.best]
    IN  IF Len(g.members) = 0 THEN [s EXCEPT !.grp[gi].bestMember = -1]
        ELSE set(UpdateGroupScan(s, g.members, 1, g.members[1]))

RECURSIVE UpdateGroups(_, _, _)
UpdateGroups(s, order, i) ==
    IF i > Len(order) THEN s
    ELSE UpdateGroups(UpdateGroup(s, s.gr[order[i]]), order, i + 1)

RECURSIVE BestScan(_, _, _)
BestScan(s, order, i) ==
    LET g == s.grp[s.gr[order[i]]]
        next(c) ==
            BestScan([s EXCEPT !.Pt[g.bestMember].bestTry = c.y,
                               !.bestParticle =
                                   IF c.result > 0 THEN g.bestMember
                                   ELSE s.bestParticle],
                     order, i + 1)
    IN  IF i > Len(order) THEN s
        ELSE IF Len(g.members) > 0
        THEN next(Cmp(s.fun, s.Pt[s.bestParticle].bestTry,
                      s.Pt[g.bestMember].bestTry, CostMode))
        ELSE BestScan(s, order, i + 1)

\* Pso.UpdateGlobal(), the map pso.gr being enumerated in the order `order`
\* (the first loop gives the same result for every order: UpdateGroup(g)
\* writes g.bestMember and clears comparison sums only)
UpdateGlobal(s, order) ==
    BestScan([UpdateGroups(s, order, 1) EXCEPT !.bestParticle = 0], order, 1)

RECURSIVE Search(_, _, _)
Search(r, f, cur) ==
    LET r1 == RndNext(r)
        hint == RndIntn(RndNext(r), maxN)
        test(c) ==
            IF c.ok
            THEN [rnd |-> r1, f |-> c.f, current |-> c.pre, hint |-> hint]
            ELSE Search(r1, c.f, cur)
    IN  test(ToConstraint(f, cur, hint))

RECURSIVE NewParticles(_, _)
NewParticles(s, i) ==
    LET place(b0, f) ==
            NewParticles(
                [s EXCEPT !.rnd = f.rnd, !.fun = f.f,
                          !.Pt[i] = [current |-> f.current, tries |-> <<>>,
                                     hint |-> f.hint, group |-> 1,
                                     bestTry |-> Copy(b0.t, f.current),
                                     vel |-> [b \in Bits |-> 0]]],
                i + 1)
        search(c0, b0) == place(b0, Search(s.rnd, b0.f, c0.t))
        best(c0) == search(c0, NewTry(c0.f))
    IN  IF i = NParticles THEN s ELSE best(NewTry(s.fun))

\* NewPso(n, fun, sd) before its loop over the particles
NewPsoStart(f, sd) ==
    LET p0 == [current |-> ZeroTry, tries |-> <<>>, hint |-> 0, group |-> 1,
               bestTry |-> ZeroTry, vel |-> [b \in Bits |-> 0]]
    IN  [rnd |-> sd, fun |-> f,
         Pt |-> [q \in Particles |-> p0],
         grp |-> << [id |-> "root",
                     members |-> [q \in 1 .. NParticles |-> q - 1],
                     targets |-> <<0>>, bestMember |-> 0, hu |-> 1] >>,
         gr |-> [nm \in {"root"} |-> 1],
         bestParticle |-> 0,
         heur |-> << ToDefault >>, hu |-> 1, panic |-> FALSE,
         clPt |-> <<>>, TryGap |-> 0]

\* NewPso(n, fun, sd)
NewPso(f, sd) == UpdateGlobal(NewParticles(NewPsoStart(f, sd), 0), <<"root">>)

\* a CreateGroup whose target slots start without a particle (-1)
CreateGroupUnassigned(s, name, ntargets) ==
    LET g0 == s.grp[s.gr["root"]]
        g == [id |-> name, members |-> <<>>,
              targets |-> [t \in 1 .. ntargets |-> -1],
              bestMember |-> 0, hu |-> g0.hu]
        gi == Len(s.grp) + 1
    IN  [s EXCEPT !.grp = Append(s.grp, g),
                  !.gr = [nm \in DOMAIN s.gr \cup {name} |->
                             IF nm = name THEN gi ELSE s.gr[nm]]]

\* Pso.CreateGroup(name, ntargets)
CreateGroup(s, name, ntargets) ==
    LET g0 == s.grp[s.gr["root"]]
        g == [id |-> name, members |-> <<>>,
              targets |-> [t \in 1 .. ntargets |-> 0],
              bestMember |-> 0, hu |-> g0.hu]
        gi == Len(s.grp) + 1
    IN  [s EXCEPT !.grp = Append(s.grp, g),
                  !.gr = [nm \in DOMAIN s.gr \cup {name} |->
                             IF nm = name THEN gi ELSE s.gr[nm]]]

\* position of the first pat in members, counted from 0; -1 if there is none
IndexOf(members, pat) ==
    IF \E i \in 1 .. Len(members) : members[i] = pat
    THEN (CHOOSE i \in 1 .. Len(members) :
             /\ members[i] = pat
             /\ \A k \in 1 .. (i - 1) : members[k] # pat) - 1
    ELSE -1

\* the loop `for ; j < l-1; j++ { members[j] = members[j+1] }` followed by
\* members = members[:l], for j >= 0
ShiftOut(members, j) ==
    LET l == Len(members)
    IN  SubSeq([i \in 1 .. l |->
                   IF i - 1 >= j /\ i - 1 < l - 1 THEN members[i + 1]
                   ELSE members[i]], 1, l)

\* Pso.MoveTo(g, pat), g the Group object gi
MoveTo(s, gi, pat) ==
    LET g0i == s.Pt[pat].group
        append(s1) ==
            [s1 EXCEPT !.grp[gi].members = Append(s1.grp[gi].members, pat),
                       !.Pt[pat].group = gi]
        remove(j) ==
            IF j < 0 /\ Len(s.grp[g0i].members) > 0
            THEN [s EXCEPT !.panic = TRUE]
            ELSE append([s EXCEPT !.grp[g0i].members =
                                      ShiftOut(s.grp[g0i].members, j)])
    IN  remove(IndexOf(s.grp[g0i].members, pat))

\* the name string(i) NewCLPso gives the group of particle i
GroupName(i) == ToString(i)

\* --------------------------------------------------------------- CLPso
\* exp(10*i/(n-1)), rounded, for 6*i/(n-1) = 0 .. 6
ExpTen(i, n) ==
    << 1, 5, 28, 148, 786, 4160, 22026 >>[((6 * i) \div (n - 1)) + 1]

\* Pc0(i, n) = 0.05 + 0.45*(exp(10*i/(n-1)) - 1)/(exp(10) - 1)
Pc0(i, n) ==
    (5 * FScale) \div 100
    + (45 * (((ExpTen(i, n) - 1) * FScale) \div (ExpTen(n - 1, n) - 1))) \div 100

RECURSIVE NewCLparts(_, _)
NewCLparts(s, i) ==
    LET move(s1) == NewCLparts(MoveTo(s1, s1.gr[GroupName(i)], i), i + 1)
        part(n) ==
            move(CreateGroup(
                     [s EXCEPT !.fun = n.f,
                               !.clPt = Append(s.clPt,
                                   [pc |-> Pc0(i, NParticles),
                                    lastBest |-> n.t, gapCount |-> -1])],
                     GroupName(i), 1))
    IN  IF i = NParticles THEN s ELSE part(NewTry(s.fun))

\* NewCLPso(p)
NewCLPso(s) ==
    NewCLparts([s EXCEPT !.TryGap = s.heur[s.hu].TryGap, !.clPt = <<>>], 0)

\* ------------------------------------------------ construction and set up
Funs ==
    {[kind |-> k, Target |-> t, rejected |-> r, rnd |-> sd] :
        k \in Kinds, t \in 0 .. MaxTarget,
        r \in {{}, {maxN - 1}}, sd \in {0}}

\* the sets of patterns a cost function's Constraint can reject
Rejecting ==
    {{}, {0}, {maxN - 1}, Patterns \ {0}, Patterns \ {maxN - 1}, Patterns}

UserNames == {"g1", "g2", "g3", "g4"}

\* the engine NewPso(n, f, sd) returns, the caller having set the two integer
\* heuristics of the master heuristics
Constructed(f, sd) ==
    LET set(s) ==
            [s EXCEPT !.heur = << SetInt(s.heur[1], NTriesSet, TryGapSet) >>]
    IN  set(NewPso(f, sd))

InitEngine ==
    \E f \in Funs, sd \in 0 .. MaxSeed :
        \E s \in {Constructed(f, sd)} :
            /\ rnd = s.rnd
            /\ fun = s.fun
            /\ Pt = s.Pt
            /\ grp = s.grp
            /\ gr = s.gr
            /\ bestParticle = s.bestParticle
            /\ heur = s.heur
            /\ hu = s.hu
            /\ panic = s.panic
            /\ clPt = s.clPt
            /\ TryGap = s.TryGap

\* no strategy chosen, no Update running
InitRun ==
    /\ variant = "none"
    /\ pc = "idle"
    /\ cursor = 0
    /\ iter = 0
    /\ pre = <<>>
    /\ twin = <<>>
    /\ ret = <<>>
    /\ held = <<>>

\* ------------------------------------ SpecGroup: the group operations
InitGroup ==
    /\ InitEngine
    /\ InitRun
    /\ nops = 0
    /\ lastOp = [op |-> "NewPso"]

DoCreateGroup ==
    /\ nops < MaxOps
    /\ UNCHANGED runVars
    /\ ~panic
    /\ Cardinality(DOMAIN gr \cap UserNames) < MaxUserGroups
    /\ \E name \in UserNames \ DOMAIN gr, nt \in 1 .. 2 :
          /\ Install(CreateGroup(St, name, nt))
          /\ lastOp' = [op |-> "CreateGroup", name |-> name]
    /\ nops' = nops + 1

DoMoveTo ==
    /\ nops < MaxOps
    /\ UNCHANGED runVars
    /\ ~panic
    /\ \E nm \in DOMAIN gr, pat \in Particles :
          /\ Install(MoveTo(St, gr[nm], pat))
          /\ lastOp' = [op |-> "MoveTo", g |-> gr[nm], pat |-> pat]
    /\ nops' = nops + 1

DoNewCLPso ==
    /\ nops < MaxOps
    /\ UNCHANGED runVars
    /\ ~panic
    /\ \A i \in Particles : GroupName(i) \notin DOMAIN gr
    /\ Install(NewCLPso(St))
    /\ lastOp' = [op |-> "NewCLPso"]
    /\ nops' = nops + 1

DoUpdateGlobal ==
    /\ nops < MaxOps
    /\ UNCHANGED runVars
    /\ ~panic
    /\ \E order \in Orders(St) :
          /\ Install(UpdateGlobal(St, order))
          /\ lastOp' = [op |-> "UpdateGlobal"]
    /\ nops' = nops + 1

NextGroup == DoCreateGroup \/ DoMoveTo \/ DoNewCLPso \/ DoUpdateGlobal

SpecGroup == InitGroup /\ [][NextGroup]_vars

\* pso.CreateGroup(name, ntargets) with a name the registry already holds:
\* pso.gr[name] = g replaces the entry
DoCreateGroupAgain ==
    /\ nops < MaxOps
    /\ UNCHANGED runVars
    /\ ~panic
    /\ \E name \in DOMAIN gr, nt \in 1 .. 2 :
          /\ Install(CreateGroup(St, name, nt))
          /\ lastOp' = [op |-> "CreateGroup", name |-> name]
    /\ nops' = nops + 1

NextRegister == NextGroup \/ DoCreateGroupAgain

\* the group operations, the names passed to CreateGroup being any names
SpecRegister == InitGroup /\ [][NextRegister]_vars

\* ----------------------------------------------------- the update (PUpdate)
\* the result of drawing rand.Float64() from pso.rnd in state s
Draw(s) == [s |-> [s EXCEPT !.rnd = RndNext(s.rnd)],
            r |-> RndFloat(RndNext(s.rnd))]

\* BlurTarget: prob := rand * (l*CardinalSize(x) + l0) / maxLen, for the
\* draw r
BlurProb(r, x, l, l0, maxLen) == Mul(r, l * CardinalSize(x) + l0) \div maxLen

\* BlurTarget: p.vel[i] = p.vel[i]*(1.0-prob) + prob
BlurVel(v, prob) == Mul(v, FScale - prob) + prob

\* Pso.BlurTarget(x, id, l, l0)
BlurTarget(s, x, id, l, l0) ==
    LET spread(s1, prob) ==
            [s1 EXCEPT !.Pt[id].vel =
                [i \in Bits |-> BlurVel(s.Pt[id].vel[i], prob)]]
        blur(d) == spread(d.s, BlurProb(d.r, x, l, l0, MaxLen))
    IN  blur(Draw(s))

\* rp := Phi * rand.Float64(); if rp > 1 { rp = 2 - rp }
Shot(phi, r) ==
    LET rp == Mul(phi, r) IN IF rp > FScale THEN 2 * FScale - rp ELSE rp

\* Pso.setTempVel(z, prob)
setTempVel(z, prob) == [i \in Bits |-> IF Bit(z, i) > 0 THEN prob ELSE 0]

\* Pso.addToTempVel(z, prob)
addToTempVel(tempVel, z, prob) ==
    [i \in Bits |-> IF Bit(z, i) > 0
                    THEN Mul(tempVel[i], FScale - prob) + prob
                    ELSE tempVel[i]]

RECURSIVE TargetPulls(_, _, _, _)
\* the loop over g.targets of PUpdate for particle id: the engine and tempVel
TargetPulls(s, id, tempVel, t) ==
    LET g == s.grp[s.Pt[id].group]
        h == s.heur[g.hu]
        add(temp, d) ==
            TargetPulls(d.s, id, addToTempVel(tempVel, temp, Shot(h.Phi, d.r)),
                        t + 1)
        pull(temp) ==
            add(temp, Draw(BlurTarget(s, temp, id, h.Lfactor, h.Loffset)))
    IN  IF t > Len(g.targets) THEN [s |-> s, tempVel |-> tempVel]
        ELSE pull(Xor(s.Pt[g.targets[t]].bestTry.x, s.Pt[id].current.x))

\* PUpdate: p.vel[jv] *= Omega; p.vel[jv] = (1.0-tempVel[jv])*p.vel[jv] +
\* tempVel[jv]
Inertia(v, tv, omega) == Mul(FScale - tv, Mul(v, omega)) + tv

\* the body of the first loop of PUpdate for component c.j of the velocity of
\* a particle of a swarm over c.maxLen items, under the default heuristics and
\* with one target: c.vel is the component, c.own the bits in which the
\* personal best differs from the current subset, c.target those in which the
\* target's best does, and c.r the five draws in the order the loop takes
\* them (blur, shot, blur, shot, sample)
VelocityStep(c) ==
    LET h == ToDefault
        sample(v) == IF c.r[5] < v THEN 0 ELSE v
        combine(v, tv) == sample(Inertia(v, tv, h.Omega))
        add(v, tv, rg) ==
            combine(v, IF Bit(c.target, c.j) > 0
                       THEN Mul(tv, FScale - rg) + rg ELSE tv)
        pull(v, tv) ==
            add(BlurVel(v, BlurProb(c.r[3], c.target, h.Lfactor, h.Loffset,
                                    c.maxLen)),
                tv, Shot(h.Phi, c.r[4]))
        own(v) ==
            pull(v, IF Bit(c.own, c.j) > 0 THEN Shot(h.Phi, c.r[2]) ELSE 0)
    IN  own(BlurVel(c.vel, BlurProb(c.r[1], c.own, h.Lfactor, h.Loffset,
                                    c.maxLen)))

\* a flip that leaves the velocity of the bit as it was
FlipKeepingVelocity(s, id, jv) ==
    [s EXCEPT !.Pt[id].hint =
                  SetBit(s.Pt[id].hint, jv, 1 - Bit(s.Pt[id].hint, jv))]

\* p.vel[jv] = 0; flip bit jv of p.hint
Flip(s, id, jv) ==
    [s EXCEPT !.Pt[id].vel[jv] = 0,
              !.Pt[id].hint =
                  SetBit(s.Pt[id].hint, jv, 1 - Bit(s.Pt[id].hint, jv))]

RECURSIVE Sample(_, _, _)
\* the mutation sampling loop of PUpdate for particle id, from bit jv on
Sample(s, id, jv) ==
    LET try(d) ==
            IF d.r < s.Pt[id].vel[jv]
            THEN Sample(Flip(d.s, id, jv), id, jv + 1)
            ELSE Sample(d.s, id, jv + 1)
    IN  IF jv = MaxLen THEN s ELSE try(Draw(s))

\* the body of the first loop of PUpdate for particle id: velocity and hint
HintStep(s, id) ==
    LET p == s.Pt[id]
        g == s.grp[p.group]
        h == s.heur[g.hu]
        combine(tp) ==
            Sample([tp.s EXCEPT !.Pt[id].vel =
                       [jv \in Bits |->
                           Inertia(tp.s.Pt[id].vel[jv], tp.tempVel[jv],
                                   h.Omega)],
                                !.Pt[id].hint = p.current.x],
                   id, 0)
        targets(temp, d) ==
            combine(TargetPulls(d.s, id,
                                setTempVel(temp, Shot(h.Phi, d.r)), 1))
        own(temp) ==
            targets(temp, Draw(BlurTarget(s, temp, id, h.Lfactor, h.Loffset)))
    IN  IF \E t \in 1 .. Len(g.targets) : g.targets[t] \notin Particles
        THEN [s EXCEPT !.panic = TRUE]
        ELSE own(Xor(p.bestTry.x, p.current.x))

\* s[1..j-1] \o s[j+1..]: append(p.tries[:j], p.tries[j+1:]...)
RemoveAt(seq, j) ==
    [i \in 1 .. (Len(seq) - 1) |-> IF i < j THEN seq[i] ELSE seq[i + 1]]

RECURSIVE UpdateTries(_, _, _)
\* for i := range p.tries { pso.fun.UpdateCost(p.tries[i]) }
UpdateTries(s, id, i) ==
    LET next(u) ==
            UpdateTries([s EXCEPT !.fun = u.f, !.Pt[id].tries[i] = u.t],
                        id, i + 1)
    IN  IF i > Len(s.Pt[id].tries) THEN s
        ELSE next(UpdateCost(s.fun, s.Pt[id].tries[i]))

RECURSIVE BetterScan(_, _, _, _, _)
BetterScan(s, id, i, j, betterResult) ==
    LET next(c) ==
            IF c.result > betterResult
            THEN BetterScan([s EXCEPT !.Pt[id].tries[i] = c.y], id, i + 1,
                            i, c.result)
            ELSE BetterScan([s EXCEPT !.Pt[id].tries[i] = c.y], id, i + 1,
                            j, betterResult)
    IN  IF i > Len(s.Pt[id].tries)
        THEN [s |-> s, j |-> j, betterResult |-> betterResult]
        ELSE next(Cmp(s.fun, s.Pt[id].bestTry, s.Pt[id].tries[i], TriesMode))

\* Particle.lookForBetterTry
lookForBetterTry(s, id) ==
    LET promote(r) ==
            IF r.j >= 1 /\ r.betterResult > FScale
            THEN [r.s EXCEPT !.Pt[id].bestTry =
                                 Copy(r.s.Pt[id].bestTry, r.s.Pt[id].tries[r.j]),
                             !.Pt[id].tries = RemoveAt(r.s.Pt[id].tries, r.j)]
            ELSE r.s
    IN  promote(BetterScan(s, id, 1, 0, 0))

RECURSIVE WorstScan(_, _, _, _, _, _)
WorstScan(s, id, i, j, worstResult, none) ==
    LET next(c) ==
            IF none \/ c.result < worstResult
            THEN WorstScan([s EXCEPT !.Pt[id].tries[i] = c.y], id, i + 1,
                           i, c.result, FALSE)
            ELSE WorstScan([s EXCEPT !.Pt[id].tries[i] = c.y], id, i + 1,
                           j, worstResult, none)
    IN  IF i > Len(s.Pt[id].tries) THEN [s |-> s, j |-> j]
        ELSE next(Cmp(s.fun, s.Pt[id].bestTry, s.Pt[id].tries[i], TriesMode))

\* the removal of the entry pushed last, whatever its score
removeNewestTry(s, id) ==
    [s EXCEPT !.Pt[id].tries = RemoveAt(s.Pt[id].tries, Len(s.Pt[id].tries))]

\* Particle.removeWorstTry (worstResult starts at math.MaxFloat64)
removeWorstTry(s, id) ==
    LET remove(r) ==
            IF r.j >= 1
            THEN [r.s EXCEPT !.Pt[id].tries = RemoveAt(r.s.Pt[id].tries, r.j)]
            ELSE r.s
    IN  remove(WorstScan(s, id, 1, 0, 0, TRUE))

\* Particle.putOntoTryList(pso, t)
putOntoTryList(s, id, t) ==
    LET trim(s1) ==
            IF Len(s1.Pt[id].tries) > s1.heur[s1.hu].NTries
            THEN removeWorstTry(s1, id)
            ELSE s1
        push(n) ==
            trim([s EXCEPT !.fun = n.f,
                           !.Pt[id].tries =
                               Append(s.Pt[id].tries, Copy(n.t, t))])
    IN  push(NewTry(s.fun))

\* SetParams up to and including lookForBetterTry, the repair having
\* succeeded with c the result of ToConstraint
Repaired(s, id, c) ==
    lookForBetterTry(
        UpdateTries([s EXCEPT !.fun = c.f, !.Pt[id].current = c.pre], id, 1),
        id)

\* a decision that takes every repaired candidate as the personal best
DecideAdopting(s, id) ==
    LET choose(c) ==
            [s EXCEPT !.Pt[id].current = c.y,
                      !.Pt[id].bestTry = Copy(s.Pt[id].bestTry, c.y)]
    IN  choose(Cmp(s.fun, s.Pt[id].bestTry, s.Pt[id].current, CostMode))

\* a decision on the sign of the comparison alone, without Threshold
DecideOnSign(s, id) ==
    LET choose(c) ==
            IF c.result > 0
            THEN [s EXCEPT !.Pt[id].current = c.y,
                           !.Pt[id].bestTry = Copy(s.Pt[id].bestTry, c.y)]
            ELSE [s EXCEPT !.Pt[id].current = c.y]
    IN  choose(Cmp(s.fun, s.Pt[id].bestTry, s.Pt[id].current, CostMode))

\* SetParams from the comparison of the repaired current try on
Decide(s, id) ==
    LET Threshold == s.heur[s.hu].Threshold
        choose(c) ==
            IF c.result > Threshold
            THEN [s EXCEPT !.Pt[id].current = c.y,
                           !.Pt[id].bestTry = Copy(s.Pt[id].bestTry, c.y)]
            ELSE IF c.result > 0 - Threshold
            THEN putOntoTryList([s EXCEPT !.Pt[id].current = c.y], id, c.y)
            ELSE [s EXCEPT !.Pt[id].current = c.y]
    IN  choose(Cmp(s.fun, s.Pt[id].bestTry, s.Pt[id].current, CostMode))

\* Pso.SetParams(id)
SetParams(s, id) ==
    LET commit(s1, c) ==
            IF c.ok THEN Decide(Repaired(s1, id, c), id)
            ELSE [s1 EXCEPT !.fun = c.f, !.Pt[id].current = c.pre]
        repair(s1) ==
            commit(s1, ToConstraint(s1.fun, s1.Pt[id].current, s1.Pt[id].hint))
        recost(u) == repair([s EXCEPT !.fun = u.f, !.Pt[id].bestTry = u.t])
    IN  recost(UpdateCost(s.fun, s.Pt[id].bestTry))

\* the path SetParams(id) takes from state s: which of its branches runs,
\* and whether lookForBetterTry promoted a trial
Branch(s, id) ==
    LET name(mid, m) ==
            IF m > mid.heur[mid.hu].Threshold THEN "adopt"
            ELSE IF m > 0 - mid.heur[mid.hu].Threshold
            THEN IF Len(mid.Pt[id].tries) + 1 > mid.heur[mid.hu].NTries
                 THEN "evict" ELSE "push"
            ELSE "keep"
        compare(mid) ==
            [branch |->
                name(mid, Cmp(mid.fun, mid.Pt[id].bestTry, mid.Pt[id].current,
                              CostMode).result),
             promoted |-> Len(mid.Pt[id].tries) < Len(s.Pt[id].tries)]
        commit(s1, c) ==
            IF c.ok THEN compare(Repaired(s1, id, c))
            ELSE [branch |-> "rejected", promoted |-> FALSE]
        repair(s1) ==
            commit(s1, ToConstraint(s1.fun, s1.Pt[id].current, s1.Pt[id].hint))
        recost(u) == repair([s EXCEPT !.fun = u.f, !.Pt[id].bestTry = u.t])
    IN  recost(UpdateCost(s.fun, s.Pt[id].bestTry))

RECURSIVE HintSweep(_, _)
HintSweep(s, id) ==
    IF id = NParticles \/ s.panic THEN s ELSE HintSweep(HintStep(s, id), id + 1)

RECURSIVE CommitSweep(_, _)
CommitSweep(s, id) ==
    IF id = NParticles THEN s ELSE CommitSweep(SetParams(s, id), id + 1)

\* the two loops of Pso.PUpdate(): every hint, then every SetParams
PUpdateSweeps(s) ==
    LET commit(s1) == IF s1.panic THEN s1 ELSE CommitSweep(s1, 0)
    IN  commit(HintSweep(s, 0))

\* the call of UpdateGlobal that ends PUpdate, the map pso.gr being
\* enumerated in the order `order`
PUpdateEnd(s, order) == IF s.panic THEN s ELSE UpdateGlobal(s, order)

\* Pso.PUpdate()
PUpdate(s, order) == PUpdateEnd(PUpdateSweeps(s), order)

\* ---------------------------------------------------------------- GPso
\* a retargeting that points the group at the global best particle
SetGroupTargetToGlobalBest(s, gi, targetList) ==
    [s EXCEPT !.grp[gi].targets =
        [t \in 1 .. Len(s.grp[gi].targets) |-> s.bestParticle]]

\* Pso.SetGroupTarget(grp, targetList...): copy(grp.targets, targetList)
SetGroupTarget(s, gi, targetList) ==
    [s EXCEPT !.grp[gi].targets =
        [t \in 1 .. Len(s.grp[gi].targets) |->
            IF t <= Len(targetList) THEN targetList[t]
            ELSE s.grp[gi].targets[t]]]

\* a retargeting that keeps to the first member of the group
GPsoRetargetToFirstMember(s) ==
    SetGroupTarget(s, s.Pt[0].group, << s.grp[s.Pt[0].group].members[1] >>)

\* GPso.Update up to its call of PUpdate
GPsoRetarget(s) ==
    LET gi == s.Pt[0].group
    IN  SetGroupTarget(s, gi, << s.grp[gi].bestMember >>)

\* --------------------------------------------------------- CLPso.Update
\* a tournament that keeps the particle with the higher personal-best cost
Loser(compResult, i1, i2) == IF compResult > 0 THEN i1 ELSE i2

\* the particle the tournament of CLPso.Update keeps
Winner(compResult, i1, i2) == IF compResult > 0 THEN i2 ELSE i1

\* what CLPso.Update draws for particle i: whether the counter exceeded TryGap
\* on entry, whether a tournament is held, and the two particles it samples
CLDraws(s, i) ==
    LET ids(r1, r2) ==
            [i1 |-> RndIntn(r1, NParticles), i2 |-> RndIntn(r2, NParticles)]
        drawn(c, d) ==
            [entered |-> c.gapCount > s.TryGap,
             tournament |-> c.gapCount > s.TryGap /\ d.r < c.pc,
             ids |-> ids(RndNext(d.s.rnd), RndNext(RndNext(d.s.rnd)))]
    IN  drawn(s.clPt[i + 1], Draw(s))

\* the body of the loop of CLPso.Update for particle i
CLRetargetOne(s, i) ==
    LET gi == s.Pt[i].group
        pick(s3, i1, i2, m) ==
            SetGroupTarget([s3 EXCEPT !.Pt[i2].bestTry = m.y], gi,
                           << Winner(m.result, i1, i2) >>)
        pair(s3, i1, i2) ==
            pick(s3, i1, i2,
                 Cmp(s3.fun, s3.Pt[i1].bestTry, s3.Pt[i2].bestTry, CostMode))
        draw2(s2, r1, r2) ==
            pair([s2 EXCEPT !.rnd = r2],
                 RndIntn(r1, NParticles), RndIntn(r2, NParticles))
        learn(c, d) ==
            IF d.r < c.pc
            THEN draw2(d.s, RndNext(d.s.rnd), RndNext(RndNext(d.s.rnd)))
            ELSE SetGroupTarget(d.s, gi, << i >>)
        judge(s1, c, m) ==
            IF m.result > 0
            THEN [s1 EXCEPT !.Pt[i].current = m.y,
                            !.clPt[i + 1].lastBest = Copy(c.lastBest, m.y),
                            !.clPt[i + 1].gapCount = 0]
            ELSE [s1 EXCEPT !.Pt[i].current = m.y,
                            !.clPt[i + 1].gapCount = c.gapCount + 1]
        gap(s1, c, try) ==
            IF c.gapCount > s1.TryGap
            THEN learn(c, Draw([s1 EXCEPT
                                   !.clPt[i + 1].gapCount = 0,
                                   !.clPt[i + 1].lastBest =
                                       Copy(c.lastBest, try)]))
            ELSE IF c.gapCount < 0
            THEN [s1 EXCEPT !.clPt[i + 1].lastBest = Copy(c.lastBest, try),
                            !.clPt[i + 1].gapCount = s1.TryGap + 1]
            ELSE judge(s1, c, Cmp(s1.fun, c.lastBest, try, CostMode))
        recost(u) ==
            gap([s EXCEPT !.fun = u.f, !.clPt[i + 1].lastBest = u.t],
                [s.clPt[i + 1] EXCEPT !.lastBest = u.t],
                s.Pt[i].current)
    IN  recost(UpdateCost(s.fun, s.clPt[i + 1].lastBest))

RECURSIVE CLRetargetFrom(_, _)
CLRetargetFrom(s, i) ==
    IF i = NParticles THEN s ELSE CLRetargetFrom(CLRetargetOne(s, i), i + 1)

\* CLPso.Update up to its call of PUpdate
CLPsoRetarget(s) == CLRetargetFrom(s, 0)

\* the part of Update that precedes PUpdate, for the strategy v
Retarget(s, v) == IF v = "gpso" THEN GPsoRetarget(s) ELSE CLPsoRetarget(s)

\* GPso.Update / CLPso.Update as one call
Update(s, v, order) == PUpdate(Retarget(s, v), order)

\* ------------------------------------------- SpecRun: Update, step by step
\* number of Update calls explored
MaxIter == 5

Snapshot(s) ==
    [q \in Particles |-> [current |-> s.Pt[q].current,
                          bestTry |-> s.Pt[q].bestTry]]

\* two engines are built from the same particle count, cost function and
\* seeds: the second one is held in twin
InitRunSpec ==
    /\ InitEngine
    /\ variant = "none"
    /\ pc = "idle"
    /\ cursor = 0
    /\ iter = 0
    /\ pre = Snapshot(St)
    /\ twin = St
    /\ ret = <<>>
    /\ held = [q \in Particles |-> Pt[q].current.cost]
    /\ nops = 0
    /\ lastOp = [op |-> "NewPso"]

DoNewGPso ==
    /\ variant = "none"
    /\ variant' = "gpso"
    /\ UNCHANGED <<engineVars, nops, lastOp, pc, cursor, iter, pre, twin,
                ret, held>>

\* the heuristics objects a caller makes besides the one NewPso made
MaxSets == 1

\* GPso.SetHeuristics(hu) / CLPso.SetHeuristics(hu), between two Update
\* calls and on both engines: hu is the object Heuristics() returned, or a
\* new object of CreatePsoHeuristics() whose Phi and Omega the caller has set
DoSetHeuristics ==
    /\ variant # "none"
    /\ pc = "idle"
    /\ ~panic
    /\ \/ /\ lastOp' = [op |-> "SetHeuristics", arg |-> "master"]
          /\ UNCHANGED <<heur, hu, twin>>
       \/ /\ Len(heur) <= MaxSets
          /\ \E phi, omega \in {FScale \div 2} :
                /\ heur' = Append(heur, [ToDefault EXCEPT !.Phi = phi,
                                                          !.Omega = omega])
                /\ twin' = [twin EXCEPT
                              !.heur = Append(twin.heur,
                                              [ToDefault EXCEPT
                                                  !.Phi = phi,
                                                  !.Omega = omega]),
                              !.hu = Len(twin.heur) + 1]
          /\ hu' = Len(heur) + 1
          /\ lastOp' = [op |-> "SetHeuristics", arg |-> "fresh"]
    /\ UNCHANGED <<rnd, fun, Pt, grp, gr, bestParticle, panic, clPt, TryGap,
                   nops, variant, pc, cursor, iter, pre, ret, held>>

\* pso.Heuristics().SetInt(NTriesHeuristic, NTriesSet + 1), on both engines,
\* before the strategy is chosen: the trial list gets one more place
DoSetNTries ==
    /\ variant = "none"
    /\ heur[hu].NTries = NTriesSet
    /\ heur' = [heur EXCEPT ![hu] = SetInt(@, NTriesSet + 1, @.TryGap)]
    /\ twin' = [twin EXCEPT !.heur[twin.hu] =
                                SetInt(@, NTriesSet + 1, @.TryGap)]
    /\ UNCHANGED <<rnd, fun, Pt, grp, gr, bestParticle, hu, panic, clPt,
                   TryGap, nops, lastOp, variant, pc, cursor, iter, pre, ret,
                   held>>

DoNewCLPsoRun ==
    /\ variant = "none"
    /\ variant' = "clpso"
    /\ Install(NewCLPso(St))
    /\ twin' = NewCLPso(twin)
    /\ UNCHANGED <<nops, lastOp, pc, cursor, iter, pre, ret, held>>

\* Update is entered: the strategy sets the targets, PUpdate starts
DoRetarget ==
    /\ variant = "gpso"
    /\ pc = "idle"
    /\ ~panic
    /\ iter < MaxIter
    /\ \E t \in {Retarget(St, variant)} :
          /\ Install(t)
          /\ pre' = Snapshot(t)
    /\ pc' = "hint"
    /\ cursor' = 0
    /\ UNCHANGED <<nops, lastOp, variant, iter, twin, ret, held>>

\* CLPso.Update is entered or goes on: one pass of its loop, for particle
\* cursor; after the last particle PUpdate starts
DoCLRetarget ==
    /\ variant = "clpso"
    /\ ~panic
    /\ \/ pc = "idle" /\ iter < MaxIter
       \/ pc = "retarget"
    /\ \E t \in {CLRetargetOne(St, cursor)} :
          /\ Install(t)
          /\ pre' = IF cursor = NParticles - 1 THEN Snapshot(t) ELSE pre
    /\ lastOp' = [op |-> "CLRetarget", id |-> cursor,
                  did |-> CLDraws(St, cursor)]
    /\ IF cursor = NParticles - 1
       THEN pc' = "hint" /\ cursor' = 0
       ELSE pc' = "retarget" /\ cursor' = cursor + 1
    /\ UNCHANGED <<nops, variant, iter, twin, ret, held>>

\* a first loop that commits the hint of a particle as soon as it is computed
DoHintCommitting ==
    /\ pc = "hint"
    /\ ~panic
    /\ Install(SetParams(HintStep(St, cursor), cursor))
    /\ IF cursor = NParticles - 1
       THEN pc' = "commit" /\ cursor' = 0
       ELSE pc' = pc /\ cursor' = cursor + 1
    /\ UNCHANGED <<nops, lastOp, variant, iter, pre, twin, ret, held>>

\* one turn of the first loop of PUpdate
DoHint ==
    /\ pc = "hint"
    /\ ~panic
    /\ Install(HintStep(St, cursor))
    /\ IF cursor = NParticles - 1
       THEN pc' = "commit" /\ cursor' = 0
       ELSE pc' = pc /\ cursor' = cursor + 1
    /\ UNCHANGED <<nops, lastOp, variant, iter, pre, twin, ret, held>>

\* one turn of the second loop of PUpdate
DoSetParams ==
    /\ pc = "commit"
    /\ ~panic
    /\ Install(SetParams(St, cursor))
    /\ lastOp' = [op |-> "SetParams", id |-> cursor, did |-> Branch(St, cursor)]
    /\ IF cursor = NParticles - 1
       THEN pc' = "global" /\ cursor' = 0
       ELSE pc' = pc /\ cursor' = cursor + 1
    /\ held' = [held EXCEPT ![cursor] =
                    IF Pt'[cursor].current.cost < @
                    THEN Pt'[cursor].current.cost ELSE @]
    /\ UNCHANGED <<nops, variant, iter, pre, twin, ret>>

\* the call of UpdateGlobal that ends PUpdate; the second engine makes the
\* same Update call, its map being enumerated in an order of its own
DoFinish ==
    /\ pc = "global"
    /\ ~panic
    /\ \E t \in {PUpdateEnd(St, order) : order \in Orders(St)} : Install(t)
    /\ \E t \in {PUpdateSweeps(Retarget(twin, variant))} :
          twin' \in {PUpdateEnd(t, order) : order \in Orders(t)}
    /\ pc' = "idle"
    /\ iter' = iter + 1
    /\ UNCHANGED <<nops, lastOp, variant, cursor, pre, ret, held>>

NextRun ==
    \/ DoNewGPso
    \/ DoSetNTries
    \/ DoNewCLPsoRun
    \/ DoSetHeuristics
    \/ DoRetarget
    \/ DoCLRetarget
    \/ DoHint
    \/ DoSetParams
    \/ DoFinish

SpecRun == InitRunSpec /\ [][NextRun]_vars

\* ------------------------------------- SpecPure: the functions, call by call
\* probabilities are the multiples of 1/Grid, Grid = 2 * Half
Half == 2
Grid == 2 * Half

\* a probability as an exact fraction n/d
Rat(n, d) == [n |-> n, d |-> d]
RatEq(a, b) == a.n * b.d = b.n * a.d
RatLe(a, b) == a.n * b.d <= b.n * a.d
Probabilities == {Rat(k, Grid) : k \in 0 .. Grid}

\* a combination that adds the two probabilities
PseudoAddPlain(t, prob) == Rat(t.n * prob.d + prob.n * t.d, t.d * prob.d)

\* tempVel[i]*(1.0-prob) + prob, in exact arithmetic
PseudoAdd(t, prob) ==
    Rat(t.n * (prob.d - prob.n) + prob.n * t.d, t.d * prob.d)

\* the instance subsetsum.New(8, 10, 3142) makes: f.ElementValues, f.Target
ElementValues == << 121, 133, 377, 762, 172, 158, 196, 358 >>
Target == 1776

\* the loop of subsetsum.Fun.Cost from element i on: the values of the
\* elements whose bit is set in x are added to cost
RECURSIVE CostLoop(_, _, _)
CostLoop(x, i, cost) ==
    IF i = Len(ElementValues) THEN cost
    ELSE CostLoop(x, i + 1,
                  IF Bit(x, i) = 1 THEN cost + ElementValues[i + 1] ELSE cost)

\* a cost that keeps the sign of the difference
SignedCost(x) == CostLoop(x, 0, 0) - Target

\* subsetsum.Fun.Cost for the subset try x
Cost(x) == Abs(CostLoop(x, 0, 0) - Target)

\* the comparisons one cost value goes through in SpecPure
MaxCmps == 5

\* the calls of SpecPure, each with its arguments
\* addToTempVel: probabilities p, q, r to combine
PseudoAddCalls ==
    {[op |-> "PseudoAdd", p |-> p, q |-> q, r |-> r] :
        p \in Probabilities, q \in Probabilities, r \in Probabilities}

\* try.Cost() after f.SetTry(try, x), for the instance of the test
CostCalls ==
    {[op |-> "Cost", x |-> x] : x \in 0 .. (Pow2(Len(ElementValues)) - 1)}

\* c := NewSFloatCostValue(Tc); c.Set(x); c.Update(y), then comparisons of c
\* with copies of itself
SFloatCmpCopyCalls ==
    {[op |-> "SFloatCmpCopy",
      c |-> SFloatUpdate(SFloatSet(ZeroTry, x * FScale), y * FScale)] :
        x \in 0 .. 1, y \in 0 .. 1}

\* an incumbent x of mean 1 and a challenger y, each made by Set, then
\* comparisons y.Cmp(x, mode) and updates of y
SFloatPairCalls ==
    {[op |-> "SFloatPair", x |-> SFloatSet(ZeroTry, FScale),
      y |-> SFloatSet(ZeroTry, a * FScale)] : a \in 0 .. 2}

\* pre := f.NewTry(); f.SetTry(pre, x), then f.ToConstraint(pre, hint), for
\* the three stubs, the parameters of the test ExampleNew among the inputs
ToConstraintCalls ==
    LET made(n, x, hint) ==
            LET set(p) == [op |-> "ToConstraint", f |-> p.f, pre |-> p.t,
                           hint |-> hint]
            IN  set(SetTry(n.f, n.t, x))
    IN  {made(NewTry([kind |-> k, Target |-> 0, rejected |-> r, rnd |-> 0]),
              x, hint) :
            k \in Kinds, r \in Rejecting,
            x \in Patterns \cup {56789}, hint \in Patterns \cup {5555}}

\* f.SetTry(x, a); f.SetTry(y, b), then f.Cmp(x, y, mode), for the stubs of
\* a deterministic cost
CmpCalls ==
    LET made(f, a, b, mode) ==
            [op |-> "Cmp", f |-> f, x |-> SetTry(f, NewTry(f).t, a).t,
             y |-> SetTry(f, NewTry(f).t, b).t, mode |-> mode]
    IN  {made([kind |-> k, Target |-> t, rejected |-> {}, rnd |-> 0],
              a, b, mode) :
            k \in {"int", "float"}, t \in 0 .. MaxTarget,
            a \in Patterns, b \in Patterns, mode \in {CostMode, TriesMode}}

\* one engine, at rest, beside which one of the calls is about to be made
\* ----------------------------- the smoothed mean and variance cost value
\* a variance above every variance the statistics can reach: math.Inf(1)
PosInf == FScale * FScale * FScale

\* a gain as the statistics use it
Fix(a) == (a.n * FScale) \div a.d

\* NewS0FloatCostValue(Tc), and NewSFloatCostValue(Tc, _) of the earlier
\* version (kind "sfloat"): the gains are exact, the statistics fixed point
NewS0FloatCostValue(tc, kind) ==
    [kind |-> kind, mean |-> 0, variance |-> 0, bMem |-> Rat(0, 1),
     lambda |-> Rat(0, 1), minLambda |-> Rat(1, tc), delta |-> 0, isum |-> 0,
     Tc |-> tc]

\* S0FloatCostValue.Set(x); the earlier version sets the variance to +Inf
S0Set(c, x) ==
    [c EXCEPT !.mean = x,
              !.variance = IF c.kind = "s0float" THEN FScale ELSE PosInf,
              !.bMem = Rat(1, 1), !.lambda = Rat(1, 1), !.delta = FScale,
              !.isum = Mul(x, x)]

\* the statistics of Update once the gains lambda and bMem are settled
S0Stats(c, x, lambda, bMem) ==
    LET var(mean, isum, dl) ==
            IF dl < FScale
            THEN Div(Mul(isum - Mul(mean, mean), dl), FScale - dl)
            ELSE c.variance
        set(delta, l0, l1) ==
            [c EXCEPT !.lambda = lambda, !.bMem = bMem, !.delta = delta,
                      !.mean = Mul(l1, c.mean) + Mul(l0, x),
                      !.isum = Mul(l1, c.isum) + Mul(l0, Mul(x, x)),
                      !.variance =
                          var(Mul(l1, c.mean) + Mul(l0, x),
                              Mul(l1, c.isum) + Mul(l0, Mul(x, x)),
                              Mul(delta, Mul(l0, l0)))]
        gains(l0, b) == set(Mul(Mul(b, b), c.delta) + FScale, l0, FScale - l0)
    IN  gains(Fix(lambda), Fix(bMem))

\* an Update whose gain keeps shrinking: no limit on lambda
S0UpdateUnlimited(c, x) ==
    IF c.variance <= 0 THEN S0Set(c, x)
    ELSE S0Stats(c, x,
                 Rat(c.lambda.n * c.bMem.d,
                     c.lambda.n * c.bMem.d + c.bMem.n * c.lambda.d),
                 c.bMem)

\* S0FloatCostValue.Update(x), and SFloatCostValue.Update of the earlier
\* version with a value that was Set to x
S0Update(c, x) ==
    LET limited(lambda) ==
            IF lambda.n * c.minLambda.d < c.minLambda.n * lambda.d
            THEN S0Stats(c, x, c.minLambda,
                         Rat(c.minLambda.d - c.minLambda.n, c.minLambda.d))
            ELSE S0Stats(c, x, lambda, c.bMem)
    IN  IF c.variance <= 0 THEN S0Set(c, x)
        ELSE limited(Rat(c.lambda.n * c.bMem.d,
                         c.lambda.n * c.bMem.d + c.bMem.n * c.lambda.d))

\* the cost values the calls are made on: version and time constant
S0FloatCalls == [op : {"S0Float"}, kind : {"s0float", "sfloat"}, Tc : 1 .. Tc]

\* the velocity components the update is applied to, with their swarm size,
\* differences and draws: rand.Float64() is in [0, 1)
VelocityCalls ==
    {c \in [op : {"Velocity"}, maxLen : 1 .. MaxLen, j : Bits,
            vel : {0, FScale \div 2, FScale},
            own : Patterns, target : Patterns,
            r : [1 .. 5 -> {0, FScale - 1}]] :
        /\ c.j < c.maxLen
        /\ c.own < Pow2(c.maxLen)
        /\ c.target < Pow2(c.maxLen)}

InitPure ==
    /\ \E s \in {Constructed([kind |-> "int", Target |-> 0, rejected |-> {},
                              rnd |-> 0], 0)} :
          /\ rnd = s.rnd
          /\ fun = s.fun
          /\ Pt = s.Pt
          /\ grp = s.grp
          /\ gr = s.gr
          /\ bestParticle = s.bestParticle
          /\ heur = s.heur
          /\ hu = s.hu
          /\ panic = s.panic
          /\ clPt = s.clPt
          /\ TryGap = s.TryGap
    /\ InitRun
    /\ nops = 0
    /\ \/ lastOp \in PseudoAddCalls
       \/ lastOp \in CostCalls
       \/ lastOp \in SFloatCmpCopyCalls
       \/ lastOp \in SFloatPairCalls
       \/ lastOp \in ToConstraintCalls
       \/ lastOp \in CmpCalls
       \/ lastOp \in VelocityCalls
       \/ lastOp \in S0FloatCalls

\* what a call in SpecPure leaves alone
restVars == <<rnd, fun, Pt, grp, gr, bestParticle, heur, hu, panic, clPt,
              TryGap, nops, lastOp, variant, pc, cursor, iter, pre, twin,
              held>>

\* the probabilities are combined, in both orders and both groupings
DoPseudoAdd ==
    /\ lastOp.op = "PseudoAdd"
    /\ ret = <<>>
    /\ ret' = [pq |-> PseudoAdd(lastOp.p, lastOp.q),
               qp |-> PseudoAdd(lastOp.q, lastOp.p),
               pq_r |-> PseudoAdd(PseudoAdd(lastOp.p, lastOp.q), lastOp.r),
               p_qr |-> PseudoAdd(lastOp.p, PseudoAdd(lastOp.q, lastOp.r))]
    /\ UNCHANGED restVars

\* the cost of a subset try of the instance is taken
DoCost ==
    /\ lastOp.op = "Cost"
    /\ ret = <<>>
    /\ ret' = [cost |-> Cost(lastOp.x)]
    /\ UNCHANGED restVars

\* c1.Copy(c), then c.Cmp(c1, mode): the cost value is compared with an
\* exact copy of itself, once more
DoSFloatCmpCopy ==
    /\ lastOp.op = "SFloatCmpCopy"
    /\ \E c \in (IF ret = <<>> THEN {lastOp.c} ELSE {ret.c}),
          n \in (IF ret = <<>> THEN {0} ELSE {ret.n}),
          mode \in {CostMode, TriesMode} :
          /\ n < MaxCmps
          /\ \E r \in {SFloatCmp(c, Copy(ZeroTry, c), mode)} :
                ret' = [c |-> r.c, c1 |-> Copy(ZeroTry, c),
                        result |-> r.result, n |-> n + 1]
    /\ UNCHANGED restVars

\* the pair after one more call: y.Cmp(x, mode), which is what
\* SFloatFunStub.Cmp(x, y, mode) makes of its arguments before it scales the
\* result, or y.Update(cost); prev is y as the call found it
DoSFloatPair ==
    /\ lastOp.op = "SFloatPair"
    /\ \E y \in (IF ret = <<>> THEN {lastOp.y} ELSE {ret.y}),
          n \in (IF ret = <<>> THEN {0} ELSE {ret.n}),
          before \in (IF ret = <<>> THEN {"none"} ELSE {ret.call}) :
          /\ n < MaxCmps
          /\ \/ \E mode \in {CostMode, TriesMode} :
                   \E r \in {SFloatCmp(y, lastOp.x, mode)} :
                      ret' = [y |-> r.c, prev |-> y, call |-> mode,
                              before |-> before, result |-> r.result,
                              n |-> n + 1]
             \/ \E cost \in {0, 2 * FScale} :
                   ret' = [y |-> SFloatUpdate(y, cost), prev |-> y,
                           call |-> "Update", before |-> before,
                           result |-> 0, n |-> n + 1]
    /\ UNCHANGED restVars

\* f.ToConstraint(pre, hint)
DoToConstraint ==
    /\ lastOp.op = "ToConstraint"
    /\ ret = <<>>
    /\ \E c \in {ToConstraint(lastOp.f, lastOp.pre, lastOp.hint)} :
          ret' = [ok |-> c.ok, pre |-> c.pre]
    /\ UNCHANGED restVars

\* f.Cmp(x, y, mode)
DoCmp ==
    /\ lastOp.op = "Cmp"
    /\ ret = <<>>
    /\ ret' = [result |-> Cmp(lastOp.f, lastOp.x, lastOp.y, lastOp.mode).result]
    /\ UNCHANGED restVars

\* one pass of the velocity update of PUpdate over the component
DoVelocity ==
    /\ lastOp.op = "Velocity"
    /\ ret = <<>>
    /\ ret' = [vel |-> VelocityStep(lastOp)]
    /\ UNCHANGED restVars

\* one more call on the cost value: Set(x) or Update(x); k counts the
\* updates since the value was set, by Set or by the Update that finds the
\* variance not positive
DoS0Float ==
    /\ lastOp.op = "S0Float"
    /\ \E c \in (IF ret = <<>>
                 THEN {NewS0FloatCostValue(lastOp.Tc, lastOp.kind)}
                 ELSE {ret.c}),
          k \in (IF ret = <<>> THEN {0} ELSE {ret.k}),
          n \in (IF ret = <<>> THEN {0} ELSE {ret.n}),
          x \in {0, FScale, 2 * FScale} :
          /\ n < MaxCmps
          /\ \/ ret' = [c |-> S0Set(c, x), call |-> "Set", k |-> 0,
                        n |-> n + 1]
             \/ ret' = [c |-> S0Update(c, x), call |-> "Update",
                        k |-> IF c.variance <= 0 THEN 0 ELSE k + 1,
                        n |-> n + 1]
    /\ UNCHANGED restVars

NextPure ==
    \/ DoPseudoAdd
    \/ DoCost
    \/ DoSFloatCmpCopy
    \/ DoSFloatPair
    \/ DoToConstraint
    \/ DoCmp
    \/ DoVelocity
    \/ DoS0Float

SpecPure == InitPure /\ [][NextPure]_vars


\* ----------------------------- SpecNew: the construction, one draw a step
InitNew ==
    /\ \E f \in {[kind |-> k, Target |-> 0, rejected |-> r, rnd |-> 0] :
                    k \in Kinds, r \in Rejecting},
          sd \in 0 .. MaxSeed :
          \E s \in {NewPsoStart(f, sd)} :
             /\ rnd = s.rnd
             /\ fun = s.fun
             /\ Pt = s.Pt
             /\ grp = s.grp
             /\ gr = s.gr
             /\ bestParticle = s.bestParticle
             /\ heur = s.heur
             /\ hu = s.hu
             /\ panic = s.panic
             /\ clPt = s.clPt
             /\ TryGap = s.TryGap
    /\ variant = "none"
    /\ pc = "new"
    /\ cursor = 0
    /\ iter = 0
    /\ pre = <<>>
    /\ twin = <<>>
    /\ ret = <<>>
    /\ held = <<>>
    /\ nops = 0
    /\ lastOp = [op |-> "NewPso"]

newVars == <<grp, gr, bestParticle, heur, hu, panic, clPt, TryGap, nops,
             lastOp, variant, iter, pre, twin, ret, held>>

\* particle cursor gets its two fresh tries
DoNewTry ==
    /\ pc = "new"
    /\ \E c0 \in {NewTry(fun)} :
          \E b0 \in {NewTry(c0.f)} :
             /\ fun' = b0.f
             /\ Pt' = [Pt EXCEPT ![cursor].current = c0.t,
                                 ![cursor].bestTry = b0.t]
    /\ pc' = "searching"
    /\ UNCHANGED <<rnd, cursor>>
    /\ UNCHANGED newVars

\* a search that leaves the loop after one draw, accepted or not
DoDrawOnce ==
    /\ pc = "searching"
    /\ \E c \in {ToConstraint(fun, Pt[cursor].current,
                               RndIntn(RndNext(rnd), maxN))} :
          /\ rnd' = RndNext(rnd)
          /\ fun' = c.f
          /\ Pt' = [Pt EXCEPT ![cursor].hint = RndIntn(RndNext(rnd), maxN),
                              ![cursor].current = c.pre,
                              ![cursor].bestTry =
                                  Copy(Pt[cursor].bestTry, c.pre)]
          /\ pc' = IF cursor = NParticles - 1 THEN "seeded" ELSE "new"
          /\ cursor' = IF cursor = NParticles - 1 THEN cursor ELSE cursor + 1
    /\ UNCHANGED newVars

\* one pass of the loop "for searching": a hint is drawn and ToConstraint is
\* tried on it; when it is accepted the personal best is copied from the
\* current candidate and the next particle is taken
DoDraw ==
    /\ pc = "searching"
    /\ \E c \in {ToConstraint(fun, Pt[cursor].current,
                               RndIntn(RndNext(rnd), maxN))} :
          /\ rnd' = RndNext(rnd)
          /\ fun' = c.f
          /\ \/ /\ ~c.ok
                /\ Pt' = [Pt EXCEPT
                             ![cursor].hint = RndIntn(RndNext(rnd), maxN),
                             ![cursor].current = c.pre]
                /\ UNCHANGED <<pc, cursor>>
             \/ /\ c.ok
                /\ Pt' = [Pt EXCEPT
                             ![cursor].hint = RndIntn(RndNext(rnd), maxN),
                             ![cursor].current = c.pre,
                             ![cursor].bestTry =
                                 Copy(Pt[cursor].bestTry, c.pre)]
                /\ pc' = IF cursor = NParticles - 1 THEN "seeded" ELSE "new"
                /\ cursor' =
                      IF cursor = NParticles - 1 THEN cursor ELSE cursor + 1
    /\ UNCHANGED newVars

\* the closing UpdateGlobal; NewPso returns
DoReturn ==
    /\ pc = "seeded"
    /\ \E t \in {UpdateGlobal(St, <<"root">>)} : Install(t)
    /\ pc' = "built"
    /\ ret' = [op |-> "NewPso"]
    /\ UNCHANGED <<nops, lastOp, variant, cursor, iter, pre, twin, held>>

NextNew ==
    \/ DoNewTry
    \/ DoDraw
    \/ DoReturn

SpecNew == InitNew /\ [][NextNew]_vars

\* the program keeps running: a loop that can take its next pass takes it
SpecNewFair == SpecNew /\ WF_vars(NextNew)

\* ------------------------------------------------------ group properties
\* the set of entries of a list
Range(seq) == {seq[i] : i \in 1 .. Len(seq)}

\* number of times pat occurs in a list
Occurrences(seq, pat) == Cardinality({i \in 1 .. Len(seq) : seq[i] = pat})

\* a list without its first entry equal to pat
WithoutFirst(seq, pat) ==
    LET j == IndexOf(seq, pat) + 1
    IN  [i \in 1 .. (Len(seq) - 1) |-> IF i < j THEN seq[i] ELSE seq[i + 1]]

\* C1: MoveTo(g, pat), pat being listed in its current group g0, removes pat
\* from g0's member list (one entry fewer, the other members in order),
\* appends pat as the last entry of g's member list, sets the particle's
\* group reference to g and changes no target list.
C1_MoveToContract ==
    [][(lastOp'.op = "MoveTo" /\ ~panic') =>
        LET g == lastOp'.g
            pat == lastOp'.pat
            g0 == Pt[pat].group
            removed == WithoutFirst(grp[g0].members, pat)
        IN  (pat \in Range(grp[g0].members)) =>
               /\ g0 # g => /\ grp'[g0].members = removed
                            /\ grp'[g].members = Append(grp[g].members, pat)
               /\ g0 = g => grp'[g].members = Append(removed, pat)
               /\ Pt'[pat].group = g
               /\ \A i \in 1 .. Len(grp) : grp'[i].targets = grp[i].targets
      ]_vars

\* C2: every particle id occurs in exactly one group's member list, exactly
\* once, and that group is the one the particle's group reference points to.
C2_OneGroupPerParticle ==
    \A p \in Particles :
        \A i \in 1 .. Len(grp) :
            Occurrences(grp[i].members, p) = (IF Pt[p].group = i THEN 1 ELSE 0)

C4_TieBreakDeterministic ==
    \A o1, o2 \in Orders(St) :
        UpdateGlobal(St, o1).bestParticle = UpdateGlobal(St, o2).bestParticle

\* ----------------------------------------------------- update properties
\* a step of SetParams for particle cursor is about to be taken
AtSetParams == pc = "commit" /\ ~panic

\* the hint of particle cursor passes / fails the constraint
Repairable == FunConstraint(fun, Pt[cursor].hint)

\* the engine as SetParams(cursor) holds it once the repair has succeeded and
\* lookForBetterTry is done, just before the CostMode comparison
Mid ==
    LET u == UpdateCost(fun, Pt[cursor].bestTry)
        s1 == [St EXCEPT !.fun = u.f, !.Pt[cursor].bestTry = u.t]
    IN  Repaired(s1, cursor,
                 ToConstraint(s1.fun, s1.Pt[cursor].current, s1.Pt[cursor].hint))

\* the CostMode comparison of the repaired current try against the personal
\* best
Margin ==
    Cmp(Mid.fun, Mid.Pt[cursor].bestTry, Mid.Pt[cursor].current, CostMode).result

\* the trial list `old` with try t pushed, every entry scored in TriesMode
\* against best: the entries as the scoring leaves them, and the scores
Scored(f, best, old, t) ==
    [i \in 1 .. (Len(old) + 1) |->
        Cmp(f, best, Append(old, t)[i], TriesMode)]

\* the hint of particle q has been computed in the PUpdate under way, or in
\* the one that has just returned
Hinted(q) ==
    \/ pc \in {"commit", "global"}
    \/ pc = "hint" /\ q < cursor
    \/ pc = "idle" /\ iter > 0

\* C5 (as stated): when the hint of a particle fails the constraint,
\* SetParams leaves its current try, its personal best try (parameter and
\* stored cost state) and its trial list exactly as they were, and raises no
\* error.
C5_FailureIsNoOp ==
    [][(AtSetParams /\ ~Repairable) =>
          /\ Pt'[cursor].current = Pt[cursor].current
          /\ Pt'[cursor].bestTry = Pt[cursor].bestTry
          /\ Pt'[cursor].tries = Pt[cursor].tries
          /\ panic' = panic]_vars

\* C5 (amended): when the hint of a particle fails the constraint, SetParams
\* leaves its current try, its trial list and the parameter of its personal
\* best as they were and raises no error; the cost state of the personal
\* best is the one a single re-evaluation (UpdateCost) of it gives, which
\* for the int and float cost functions is the cost it had.
C5_FailureKeepsAllButBestCost ==
    [][(AtSetParams /\ ~Repairable) =>
          /\ Pt'[cursor].current = Pt[cursor].current
          /\ Pt'[cursor].tries = Pt[cursor].tries
          /\ Pt'[cursor].bestTry.x = Pt[cursor].bestTry.x
          /\ Pt'[cursor].bestTry = UpdateCost(fun, Pt[cursor].bestTry).t
          /\ (fun.kind # "sfloat" => Pt'[cursor].bestTry = Pt[cursor].bestTry)
          /\ panic' = panic]_vars

\* C5 witness: SetParams has just run for a particle of a noisy cost
\* function whose hint fails the constraint
C5_Witness ==
    /\ lastOp.op = "SetParams"
    /\ lastOp.did.branch = "rejected"
    /\ fun.kind = "sfloat"
    /\ Pt[lastOp.id].hint \in fun.rejected
    /\ Pt[lastOp.id].hint # Pt[lastOp.id].current.x

\* C6: after a successful repair, with m the CostMode comparison of the
\* repaired current try against the personal best: if m > Threshold the
\* current try is copied into the personal best and the trial list is
\* unchanged; else if m > -Threshold a copy of the current try is pushed onto
\* the trial list (one entry leaving it if that exceeds NTries) and the
\* personal best is unchanged; otherwise neither changes.
C6_ThreeOutcomes ==
    [][(AtSetParams /\ Repairable) =>
          LET p == Pt'[cursor]
              m == Mid.Pt[cursor]
              Threshold == heur[hu].Threshold
              NTries == heur[hu].NTries
          IN  /\ p.current.x = Pt[cursor].hint
              /\ IF Margin > Threshold
                 THEN /\ p.bestTry = p.current
                      /\ p.tries = m.tries
                 ELSE IF Margin > 0 - Threshold
                 THEN /\ p.bestTry = m.bestTry
                      /\ IF Len(m.tries) < NTries
                         THEN p.tries = Append(m.tries, p.current)
                         ELSE \E j \in 1 .. (Len(m.tries) + 1) :
                                [i \in 1 .. Len(p.tries) |-> p.tries[i].x]
                                = RemoveAt([i \in 1 .. (Len(m.tries) + 1) |->
                                              Append(m.tries, p.current)[i].x],
                                           j)
                 ELSE /\ p.bestTry = m.bestTry
                      /\ p.tries = m.tries]_vars

\* C6 witness: SetParams has just pushed the repaired current try of a
\* particle onto its trial list, the personal best being another pattern
C6_Witness ==
    /\ lastOp.op = "SetParams"
    /\ lastOp.did.branch = "push"
    /\ Len(Pt[lastOp.id].tries) > 0
    /\ Pt[lastOp.id].tries[Len(Pt[lastOp.id].tries)].x = Pt[lastOp.id].current.x
    /\ Pt[lastOp.id].bestTry.x # Pt[lastOp.id].current.x

\* C7: after any SetParams call the trial list of the particle holds at most
\* NTries entries; when the push makes it NTries+1 long exactly one entry is
\* removed, one whose TriesMode score against the personal best is lowest.
C7_TrialListBounded ==
    [][AtSetParams =>
          LET p == Pt'[cursor]
              m == Mid.Pt[cursor]
              Threshold == heur[hu].Threshold
              NTries == heur[hu].NTries
          IN  /\ Len(p.tries) <= NTries
              /\ (/\ Repairable
                  /\ Margin <= Threshold
                  /\ Margin > 0 - Threshold
                  /\ Len(m.tries) = NTries)
                 => LET sc == Scored(fun', p.bestTry, m.tries, p.current)
                    IN  \E j \in 1 .. (NTries + 1) :
                          /\ \A i \in 1 .. (NTries + 1) :
                                sc[j].result <= sc[i].result
                          /\ p.tries = RemoveAt([i \in 1 .. (NTries + 1) |->
                                                    sc[i].y], j)]_vars

\* C7 witness: SetParams has just pushed onto a full trial list and evicted,
\* the entry that stays being the one just pushed
C7_Witness ==
    /\ lastOp.op = "SetParams"
    /\ lastOp.did.branch = "evict"
    /\ Len(Pt[lastOp.id].tries) = heur[hu].NTries
    /\ Pt[lastOp.id].tries[Len(Pt[lastOp.id].tries)].x = Pt[lastOp.id].current.x

\* C8: from the moment the hint of a particle is computed until PUpdate
\* returns, every bit in which the hint differs from the current candidate
\* the particle had before the update has velocity 0.
C8_FlippedBitsHaveZeroVelocity ==
    ~panic =>
        \A q \in Particles :
            Hinted(q) =>
                \A i \in Bits :
                    Bit(Pt[q].hint, i) # Bit(pre[q].current.x, i)
                        => Pt[q].vel[i] = 0

\* C8 witness: PUpdate is about to return, a hint differs from the
\* pre-update current candidate, and some velocity is not 0
C8_Witness ==
    /\ pc = "global"
    /\ \E q \in Particles :
          /\ Pt[q].hint # pre[q].current.x
          /\ \E i \in Bits : Pt[q].vel[i] > 0

\* C9: within one PUpdate every hint is computed before SetParams runs for
\* any particle and UpdateGlobal runs once after SetParams has run for every
\* particle; while the hints are computed no current candidate, personal
\* best or trial list changes, so every hint is computed from the values
\* all particles had when PUpdate was entered.
C9_SweepsInOrder ==
    [][/\ (pc = "hint" =>
              /\ \A q \in Particles :
                    /\ Pt[q].current = pre[q].current
                    /\ Pt[q].bestTry = pre[q].bestTry
                    /\ Pt'[q].current = Pt[q].current
                    /\ Pt'[q].bestTry = Pt[q].bestTry
                    /\ Pt'[q].tries = Pt[q].tries
              /\ bestParticle' = bestParticle
              /\ grp' = grp
              /\ \/ pc' = "hint" /\ cursor' = cursor + 1
                 \/ pc' = "commit" /\ cursor = NParticles - 1)
       /\ (pc = "commit" =>
              /\ \A q \in Particles :
                    /\ Pt'[q].hint = Pt[q].hint
                    /\ Pt'[q].vel = Pt[q].vel
                    /\ q # cursor => Pt'[q] = Pt[q]
              /\ bestParticle' = bestParticle
              /\ grp' = grp
              /\ \/ pc' = "commit" /\ cursor' = cursor + 1
                 \/ pc' = "global" /\ cursor = NParticles - 1)
       /\ (pc = "global" =>
              /\ \A q \in Particles :
                    /\ Pt'[q].current.x = Pt[q].current.x
                    /\ Pt'[q].bestTry.x = Pt[q].bestTry.x
                    /\ Pt'[q].hint = Pt[q].hint
              /\ pc' = "idle"
              /\ iter' = iter + 1)
       /\ (pc = "idle" => pc' \in {"idle", "retarget", "hint"})
       /\ (pc = "retarget" => pc' \in {"retarget", "hint"})]_vars

\* C9 witness: every hint is computed, one of them differs from the current
\* candidate of its particle, and SetParams has not yet run for any particle
C9_Witness ==
    /\ pc = "commit"
    /\ cursor = 0
    /\ iter > 0
    /\ \E q \in Particles : Pt[q].hint # Pt[q].current.x
    /\ \A q \in Particles : Pt[q].current = pre[q].current

\* C10: two engines built with the same particle count, cost function and
\* seeds and given the same number of Update calls of the same variant hold,
\* after every Update, the same current try and the same personal best try
\* (pattern and cost state) for every particle.
C10_SameSeedsSameRun ==
    (pc = "idle" /\ ~panic) =>
        \A q \in Particles :
            /\ twin.Pt[q].current = Pt[q].current
            /\ twin.Pt[q].bestTry = Pt[q].bestTry

\* C10 witness: both engines have made the same Update calls, their group
\* registries were enumerated in different orders (they differ in the global
\* best particle), and the update moved a particle
C10_Witness ==
    /\ pc = "idle"
    /\ iter > 0
    /\ twin.bestParticle # bestParticle
    /\ \E q \in Particles : Pt[q].current.x # pre[q].current.x

\* ------------------------------------------------------ function properties
\* C11: the pseudo-add P(p,q) = p + q - p*q is commutative and associative,
\* maps probabilities to probabilities, is at least as large as each of its
\* arguments, and gives P(1/2, 1/2) = 3/4.
C11_PseudoAddAlgebra ==
    (lastOp.op = "PseudoAdd" /\ ret # <<>>) =>
        /\ RatEq(ret.pq, ret.qp)
        /\ RatEq(ret.pq_r, ret.p_qr)
        /\ RatLe(Rat(0, 1), ret.pq) /\ RatLe(ret.pq, Rat(1, 1))
        /\ RatLe(lastOp.p, ret.pq) /\ RatLe(lastOp.q, ret.pq)
        /\ RatEq(ret.pq, Rat(lastOp.p.n * lastOp.q.d + lastOp.q.n * lastOp.p.d
                               - lastOp.p.n * lastOp.q.n,
                             lastOp.p.d * lastOp.q.d))
        /\ (RatEq(lastOp.p, Rat(1, 2)) /\ RatEq(lastOp.q, Rat(1, 2)))
              => RatEq(ret.pq, Rat(3, 4))

\* C11 witness: 1/2 and 1/2 have been combined to 3/4, with a third
\* probability strictly between 0 and 1
C11_Witness ==
    /\ lastOp.op = "PseudoAdd"
    /\ ret # <<>>
    /\ RatEq(lastOp.p, Rat(1, 2))
    /\ RatEq(lastOp.q, Rat(1, 2))
    /\ RatEq(ret.pq, Rat(3, 4))
    /\ lastOp.r.n > 0 /\ lastOp.r.n < lastOp.r.d

\* C12: in the global-best strategy, when GPso.Update enters PUpdate the
\* one target of the root group, which holds every particle, is the particle
\* the most recent UpdateGlobal recorded as global best.
C12_GPsoTargetsGlobalBest ==
    (variant = "gpso" /\ pc = "hint" /\ cursor = 0 /\ ~panic) =>
        /\ \A q \in Particles : Pt[q].group = gr["root"]
        /\ grp[gr["root"]].targets = << bestParticle >>

\* C12 witness: a later Update of the global-best strategy enters PUpdate,
\* the global best being a particle other than particle 0 and strictly
\* better than another particle
C12_Witness ==
    /\ variant = "gpso"
    /\ pc = "hint"
    /\ cursor = 0
    /\ iter > 0
    /\ bestParticle # 0
    /\ grp[gr["root"]].targets = << bestParticle >>
    /\ \E q \in Particles :
          Pt[bestParticle].bestTry.cost < Pt[q].bestTry.cost

\* C13: in CLPso.Update the target of a particle changes only when its
\* stagnation counter exceeds TryGap on entry; then the counter is reset to 0
\* and the new target is the particle itself or the winner of a tournament
\* between the two sampled particles, whose personal-best cost is not higher
\* than the other's; otherwise the target is left as it was
C13_CLPsoRetargets ==
    [][(variant = "clpso" /\ pc \in {"idle", "retarget"}
            /\ lastOp'.op = "CLRetarget") =>
        /\ lastOp'.id = cursor
        /\ \A q \in Particles \ {cursor} :
               grp'[Pt'[q].group].targets = grp[Pt[q].group].targets
        /\ ~lastOp'.did.entered =>
               grp'[Pt'[cursor].group].targets = grp[Pt[cursor].group].targets
        /\ lastOp'.did.entered =>
               /\ clPt'[cursor + 1].gapCount = 0
               /\ \/ /\ ~lastOp'.did.tournament
                     /\ grp'[Pt'[cursor].group].targets = << cursor >>
                  \/ /\ lastOp'.did.tournament
                     /\ \E w \in {lastOp'.did.ids.i1, lastOp'.did.ids.i2} :
                           /\ grp'[Pt'[cursor].group].targets = << w >>
                           /\ Pt'[w].bestTry.cost
                                  <= Pt'[lastOp'.did.ids.i1].bestTry.cost
                           /\ Pt'[w].bestTry.cost
                                  <= Pt'[lastOp'.did.ids.i2].bestTry.cost]_vars

\* C13 witness: a tournament between two particles of different personal-best
\* cost has just given a particle the target of lower cost, another particle
\* than itself
C13_Witness ==
    /\ variant = "clpso"
    /\ lastOp.op = "CLRetarget"
    /\ pc \in {"retarget", "hint"}
    /\ cursor = (lastOp.id + 1) % NParticles
    /\ lastOp.did.tournament
    /\ Pt[lastOp.did.ids.i1].bestTry.cost # Pt[lastOp.did.ids.i2].bestTry.cost
    /\ grp[Pt[lastOp.id].group].targets # << lastOp.id >>
    /\ clPt[lastOp.id + 1].gapCount = 0

\* C14: NewPso retries the draw for each particle without bound. When it has
\* returned, every particle holds a candidate ToConstraint accepted and its
\* personal best equals it; it does return when some hint is acceptable and
\* the loop keeps running; it never returns when every hint is rejected
C14_NewPsoSearches ==
    /\ [](pc = "built" =>
             \A q \in Particles :
                /\ FunConstraint(fun, Pt[q].current.x)
                /\ Pt[q].current.x = Pt[q].hint
                /\ Pt[q].bestTry = Pt[q].current)
    /\ [](fun.rejected = Patterns => pc # "built")
    /\ (pc = "new" /\ fun.rejected # Patterns) ~> (pc = "built")

\* C14 witness: NewPso has returned although the default candidate 0 and all
\* hints but one are rejected
C14_Witness ==
    /\ pc = "built"
    /\ ret = [op |-> "NewPso"]
    /\ fun.rejected = Patterns \ {maxN - 1}
    /\ \A q \in Particles : Pt[q].bestTry.x = maxN - 1

\* C15: SFloatCostValue.Cmp of a cost value against an exact copy of itself
\* gives a result in the band [-1, 1] of the indistinguishable, in every
\* mode and however often the comparison is repeated
C15_CopyIsIndistinguishable ==
    (lastOp.op = "SFloatCmpCopy" /\ ret # <<>> /\ ret.c1.cost = ret.c.cost) =>
        /\ ret.result >= 0 - FScale
        /\ ret.result <= FScale

\* C16: with the int or the float stub and the default Threshold, after every
\* SetParams the cost of the particle's personal best is at most the cost of
\* every candidate the particle has held as current since construction
C16_BestIsLowestHeld ==
    (fun.kind \in {"int", "float"} /\ lastOp.op = "SetParams") =>
        /\ heur[hu].Threshold = ToDefault.Threshold
        /\ \A q \in Particles :
               /\ Pt[q].bestTry.cost <= held[q]
               /\ held[q] <= Pt[q].current.cost

\* C16 witness: SetParams has given a particle a candidate of higher cost
\* than one it held before, and the personal best stays at the lower cost
C16_Witness ==
    /\ fun.kind \in {"int", "float"}
    /\ lastOp.op = "SetParams"
    /\ lastOp.did.branch = "keep"
    /\ iter > 0
    /\ held[lastOp.id] < Pt[lastOp.id].current.cost
    /\ Pt[lastOp.id].bestTry.cost = held[lastOp.id]
    /\ Pt[lastOp.id].bestTry.x # Pt[lastOp.id].current.x

\* the element values the bits of x select, as a bag of (index, value) pairs
Selected(x) ==
    {<<i, ElementValues[i + 1]>> : i \in {j \in 0 .. (Len(ElementValues) - 1) :
                                             Bit(x, j) = 1}}

RECURSIVE SumOf(_)
SumOf(pairs) ==
    IF pairs = {} THEN 0
    ELSE LET e == CHOOSE e \in pairs : TRUE IN e[2] + SumOf(pairs \ {e})

\* C17: the cost of a bit pattern is the absolute value of the sum of the
\* selected element values minus the target; for the instance of seed 3142
\* the pattern 10101100 (172) has cost 121
C17_SubsetSumCost ==
    (lastOp.op = "Cost" /\ ret # <<>>) =>
        /\ ret.cost >= 0
        /\ \/ ret.cost = SumOf(Selected(lastOp.x)) - Target
           \/ ret.cost = Target - SumOf(Selected(lastOp.x))
        /\ lastOp.x = 172 => ret.cost = 121

\* C17 witness: the cost of the pattern 10101100, which selects the elements
\* 2, 3, 5 and 7, has been taken
C17_Witness ==
    /\ lastOp.op = "Cost"
    /\ ret # <<>>
    /\ lastOp.x = 172
    /\ Selected(lastOp.x) = {<<2, 377>>, <<3, 762>>, <<5, 158>>, <<7, 358>>}
    /\ ret.cost = 121

\* C18: after SetHeuristics(hu) on a GPso or CLPso, the heuristics PUpdate
\* reads for the group of every particle (Phi, Omega, Lfactor, Loffset) are
\* those of hu, the object SetParams reads Threshold and NTries from
C18_SetHeuristicsReachesGroups ==
    (lastOp.op = "SetHeuristics") =>
        \A q \in Particles :
            /\ heur[grp[Pt[q].group].hu].Phi = heur[hu].Phi
            /\ heur[grp[Pt[q].group].hu].Omega = heur[hu].Omega
            /\ heur[grp[Pt[q].group].hu].Lfactor = heur[hu].Lfactor
            /\ heur[grp[Pt[q].group].hu].Loffset = heur[hu].Loffset

C20_DeterministicCmp ==
    (lastOp.op = "Cmp" /\ ret # <<>> /\ lastOp.mode = CostMode) =>
        /\ ret.result \in {0 - FScale, FScale}
        /\ lastOp.x.cost < lastOp.y.cost => ret.result = 0 - FScale
        /\ lastOp.x.cost > lastOp.y.cost => ret.result = FScale
        /\ lastOp.x.cost = lastOp.y.cost => ret.result = 0 - FScale

\* C21: a CostMode comparison of the noisy cost value returns +0.5 when the
\* mean of y is strictly lower than the mean of x and -0.5 otherwise, and
\* clears the two sums of y, so that the TriesMode comparison issued next
\* starts from zero counts: it leaves a count of one comparison and of one
\* success or none
C21_CostModeClears ==
    (lastOp.op = "SFloatPair" /\ ret # <<>>) =>
        /\ ret.call = CostMode =>
               /\ ret.result = IF ret.prev.cost < lastOp.x.cost
                                THEN FScale \div 2 ELSE 0 - (FScale \div 2)
               /\ ret.y.compSum = 0
               /\ ret.y.compSuccessSum = 0
               /\ ret.y.cost = ret.prev.cost
        /\ (ret.call = TriesMode /\ ret.before = CostMode) =>
               /\ ret.y.compSum = FScale
               /\ ret.y.compSuccessSum =
                      IF ret.prev.cost < lastOp.x.cost THEN FScale ELSE 0

\* C21 witness: a pair with comparisons on record has been compared in
\* CostMode, y of the lower mean, and then in TriesMode
C21_Witness ==
    /\ lastOp.op = "SFloatPair"
    /\ ret # <<>>
    /\ ret.call = TriesMode
    /\ ret.before = CostMode
    /\ ret.n >= 3
    /\ ret.prev.cost < lastOp.x.cost
    /\ ret.y.compSum = FScale
    /\ ret.y.compSuccessSum = FScale
    /\ ret.result > 0

\* C22: on every TriesMode comparison both sums of the challenger are
\* forgotten: the comparison count and the success count are each multiplied
\* by 1 - 1/Tc, then the comparison count grows by 1 and the success count
\* grows by 1 only if the mean of the challenger is the lower one
C22_BothSumsForgotten ==
    (lastOp.op = "SFloatPair" /\ ret # <<>> /\ ret.call = TriesMode) =>
        /\ ret.y.compSum = Mul(ret.prev.compSum, Alpha) + FScale
        /\ ret.y.compSuccessSum =
               Mul(ret.prev.compSuccessSum, Alpha)
                   + (IF ret.prev.cost < lastOp.x.cost THEN FScale ELSE 0)

\* C23: the TriesMode score is signed by the direction of the mean difference
\* of the current comparison: positive when the mean of the challenger is
\* lower than the mean of the incumbent, negative when it is higher, whatever
\* the earlier comparisons were
C23_SignedByMeanDifference ==
    (lastOp.op = "SFloatPair" /\ ret # <<>> /\ ret.call = TriesMode) =>
        /\ ret.prev.cost < lastOp.x.cost => ret.result > 0
        /\ ret.prev.cost > lastOp.x.cost => ret.result < 0

\* C23 as amended: the TriesMode score is signed by epsilon, the balance of
\* the sums the comparison leaves: it is not negative when the success count
\* is at least half the comparison count and not positive when it is less;
\* it follows the direction of the mean difference of the current comparison
\* when the sums were zero on entry
C23_SignedByEpsilon ==
    (lastOp.op = "SFloatPair" /\ ret # <<>> /\ ret.call = TriesMode) =>
        /\ 2 * ret.y.compSuccessSum >= ret.y.compSum => ret.result >= 0
        /\ 2 * ret.y.compSuccessSum < ret.y.compSum => ret.result <= 0
        /\ (ret.prev.compSum = 0 /\ ret.prev.compSuccessSum = 0) =>
               /\ ret.prev.cost < lastOp.x.cost => ret.result > 0
               /\ ret.prev.cost > lastOp.x.cost => ret.result < 0

\* C23 witness: the challenger, its mean now higher than the mean of the
\* incumbent, gets a positive score from the successes it has on record
C23_Witness ==
    /\ lastOp.op = "SFloatPair"
    /\ ret # <<>>
    /\ ret.call = TriesMode
    /\ ret.prev.cost > lastOp.x.cost
    /\ ret.prev.compSuccessSum > 0
    /\ 2 * ret.y.compSuccessSum > ret.y.compSum
    /\ ret.result > 0

\* the TriesMode score the last comparison of trial t returned, from the sums
\* and the epsilon the comparison left in t, after the sigma-margin scaling
TriesScore(t) ==
    LET e2 == Mul(t.epsilon, t.epsilon)
        s == Div(Mul(t.compSum, e2), (FScale \div 4) - e2)
    IN  (IF t.epsilon >= 0 THEN s ELSE 0 - s) \div (SigmaMargin * SigmaMargin)

\* C24: a trial whose TriesMode score against the personal best is a
\* confident loss (below -1) is discarded: after the SetParams call in which
\* the score was computed the trial list of the particle holds no such trial
C24_ConfidentLossDiscarded ==
    (lastOp.op = "SetParams" /\ lastOp.did.branch # "rejected") =>
        \A i \in 1 .. Len(Pt[lastOp.id].tries) :
            TriesScore(Pt[lastOp.id].tries[i]) >= 0 - FScale

\* C25: every velocity component is a probability in [0, 1] after
\* construction and after every PUpdate, for every MaxLen >= 1 under the
\* default heuristics: the component the update leaves behind, and every
\* velocity of every particle of the engine
C25_VelocityIsProbability ==
    /\ \A q \in DOMAIN Pt : \A jv \in Bits : Pt[q].vel[jv] \in 0 .. FScale
    /\ (lastOp.op = "Velocity" /\ ret # <<>>) => ret.vel \in 0 .. FScale

\* C26: with Tc >= 1 the data gain lambda of the smoothed cost value, k
\* updates after it was set (the variance staying positive), is 1/(k+1) while
\* that is at least 1/Tc and 1/Tc from then on; it is never below 1/Tc after
\* any sequence of Set and Update
C26_LambdaFloorsAtInverseTc ==
    (lastOp.op = "S0Float" /\ ret # <<>>) =>
        /\ ret.k + 1 <= lastOp.Tc => RatEq(ret.c.lambda, Rat(1, ret.k + 1))
        /\ ret.k + 1 > lastOp.Tc => RatEq(ret.c.lambda, Rat(1, lastOp.Tc))
        /\ RatLe(Rat(1, lastOp.Tc), ret.c.lambda)

\* the gain has shrunk with the updates and then stopped at the limit
C26_Witness ==
    /\ lastOp.op = "S0Float"
    /\ ret # <<>>
    /\ lastOp.Tc >= 2
    /\ ret.call = "Update"
    /\ ret.k > lastOp.Tc
    /\ ret.c.variance > 0
    /\ RatEq(ret.c.lambda, Rat(1, lastOp.Tc))

\* C27: after any sequence of MoveTo followed by UpdateGlobal, GroupBest(g)
\* is -1 exactly when no particle's group reference is g, and otherwise the
\* id of a particle whose group reference is g and whose personal best cost
\* is lowest among those particles
C27_GroupBestAmongReferring ==
    (lastOp.op = "UpdateGlobal") =>
        \A nm \in DOMAIN gr :
            LET g == gr[nm]
                refs == {q \in Particles : Pt[q].group = g}
            IN  /\ (grp[g].bestMember = -1) <=> (refs = {})
                /\ refs # {} =>
                       /\ grp[g].bestMember \in refs
                       /\ \A q \in refs :
                              Pt[grp[g].bestMember].bestTry.cost
                                  <= Pt[q].bestTry.cost

\* C28: in GPso and in CLPso, at the start of every PUpdate, from the first
\* Update on, every target entry of every particle's group is a particle id
\* in [0, n), the target slots of CLPso groups that no retarget has assigned
\* yet included: PUpdate never indexes a particle that does not exist
C28_TargetsAreParticles ==
    /\ variant # "none" => ~panic
    /\ (variant # "none" /\ pc = "hint" /\ cursor = 0) =>
           \A q \in Particles :
               \A t \in 1 .. Len(grp[Pt[q].group].targets) :
                   grp[Pt[q].group].targets[t] \in Particles

\* C28 witness: the first PUpdate of a CLPso starts, no retarget having
\* assigned the target slot of the group of the last particle
C28_Witness ==
    /\ variant = "clpso"
    /\ pc = "hint"
    /\ cursor = 0
    /\ iter = 0
    /\ ~panic
    /\ Pt[NParticles - 1].group # Pt[0].group
    /\ grp[Pt[NParticles - 1].group].targets = << 0 >>
    /\ lastOp.op = "CLRetarget"
    /\ ~lastOp.did.entered

\* C29: after any sequence of CreateGroup and MoveTo, CreateGroup with a
\* name that is already registered (such as "root") included, the group
\* reference of every particle is the group Gr returns for the id of that
\* group, so that UpdateGlobal, which scans the registered groups only, takes
\* the personal best of every particle into account
C29_ReferencesAreRegistered ==
    /\ \A q \in Particles :
           /\ grp[Pt[q].group].id \in DOMAIN gr
           /\ gr[grp[Pt[q].group].id] = Pt[q].group
    /\ (lastOp.op = "UpdateGlobal") =>
           \A q \in Particles :
               Pt[bestParticle].bestTry.cost <= Pt[q].bestTry.cost

\* C30: with the noisy stub and the default Threshold the CostMode margin
\* is +0.5 or -0.5, so SetParams never adopts a repaired hint directly: every
\* repaired hint is pushed on the trial list, and the personal best candidate
\* of a particle changes only in its SetParams, through the promotion by
\* lookForBetterTry (TriesMode score above 1) of a trial of its list
C30_NoisyBestOnlyByPromotion ==
    [][(fun.kind = "sfloat" /\ heur[hu].Threshold = ToDefault.Threshold) =>
          /\ (pc = "commit" /\ lastOp'.op = "SetParams") =>
                 /\ lastOp'.did.branch \in {"rejected", "push", "evict"}
                 /\ lastOp'.did.branch # "rejected" =>
                        Len(Pt'[cursor].tries) >=
                            (IF lastOp'.did.promoted
                             THEN Len(Pt[cursor].tries) - 1
                             ELSE Len(Pt[cursor].tries))
          /\ \A q \in Particles :
                 (Pt'[q].bestTry.x # Pt[q].bestTry.x) =>
                     /\ pc = "commit"
                     /\ cursor = q
                     /\ lastOp'.did.promoted
                     /\ \E i \in 1 .. Len(Pt[q].tries) :
                            Pt[q].tries[i].x = Pt'[q].bestTry.x
      ]_vars

\* C30 witness: a SetParams of the noisy stub has promoted a trial to
\* personal best, the candidate differing from the one PUpdate started with,
\* and has pushed the repaired hint
C30_Witness ==
    /\ fun.kind = "sfloat"
    /\ heur[hu].Threshold = ToDefault.Threshold
    /\ lastOp.op = "SetParams"
    /\ lastOp.did.promoted
    /\ lastOp.did.branch \in {"push", "evict"}
    /\ pre # <<>>
    /\ Pt[lastOp.id].bestTry.x # pre[lastOp.id].bestTry.x
====
